---- MODULE Spec2Model ----
(***************************************************************************)
(* Model of the block verification protocol of the non-finalized block     *)
(* tree (lib/src/chain/blocks_tree/verify.rs).                             *)
(*                                                                         *)
(* Option<T> is a sequence of length at most one: None is <<>>, Some(x)    *)
(* is <<x>>.  A node index of the fork tree is a position in `blocks`.     *)
(* A 32-byte hash is modelled by the byte string it was computed from      *)
(* (Blake2b-256 taken as collision free).                                  *)
(***************************************************************************)
EXTENDS Integers, Sequences, FiniteSets, TLC

\* Largest number of blocks the tree holds in the model.
MaxBlocks == 3

None == <<>>
Some(x) == <<x>>
IsSome(o) == Len(o) = 1
Unwrap(o) == o[1]

(***************************************************************************)
(* Headers, their encoding and their hash.                                 *)
(***************************************************************************)

\* The all-zero hash, which is the hash of no header.
ZeroHash == <<>>

\* The largest block number: block numbers are u64 in the source and are
\* given 16 bits here.
MaxNumber == 2 ^ 16 - 1

ScheduledChange(delay, next) ==
    [kind |-> "ScheduledChange", delay |-> delay, next_authorities |-> next]

\* A Grandpa consensus log that is not a scheduled change (forced change,
\* on disabled, pause, resume).
OtherGrandpaLog == [kind |-> "Other", delay |-> 0, next_authorities |-> 0]

\* Grandpa consensus logs of the headers the environment submits to a chain
\* whose finality is Grandpa: none, one scheduled change, two scheduled
\* changes, a scheduled change after a log of another kind, and a scheduled
\* change whose delay added to any block number overflows.
GrandpaDigestInputs ==
    { <<>>,
      <<ScheduledChange(1, 1)>>,
      <<ScheduledChange(1, 1), ScheduledChange(0, 2)>>,
      <<OtherGrandpaLog, ScheduledChange(0, 2)>>,
      <<ScheduledChange(MaxNumber, 2)>> }

\* header::decode: the bytes are the encodings of the parent hash, of the
\* number and of the digest, in this order; anything else fails to decode.
Decodable(scale_encoded_header) == Len(scale_encoded_header) = 3

decode(scale_encoded_header) ==
    [parent_hash |-> scale_encoded_header[1],
     number      |-> scale_encoded_header[2],
     digest      |-> scale_encoded_header[3]]

\* Header::scale_encoding
scale_encoding(header) == <<header.parent_hash, header.number, header.digest>>

\* header::hash_from_scale_encoded_header
hash_from_scale_encoded_header(scale_encoded_header) == scale_encoded_header

\* Header::hash
hash(header) == hash_from_scale_encoded_header(scale_encoding(header))

(***************************************************************************)
(* The state.                                                              *)
(***************************************************************************)
VARIABLES
    blocks,                 \* fork tree: sequence of nodes, index = position
    blocks_by_hash,         \* function from hash to node index
    current_best,           \* Option<NodeIndex>
    finalized_block_header,
    finalized_block_hash,
    finalized_consensus,
    finality,
    allow_unknown_consensus_engines,
    inner,                  \* where the tree's inner state is: "tree" | "context" | "dropped"
    pc,                     \* the verification object the caller holds, "idle" if none
    context,                \* VerifyContext of the verification in flight
    insert_handle,          \* fields of HeaderInsert / BodyInsert beside the context
    parent_runtime,         \* who holds the parent runtime: "caller" | "verification"
    before,                 \* tree as it was when the verification in flight started
    last,                   \* last operation and what it returned
    storage,                \* the store of the trie: function from key to value
    entry_version,          \* TrieEntryVersion of the values of the store
    cache,                  \* CalculationCache: [structure |-> Option<TrieStructure>]
    calculation,            \* the RootMerkleValueCalculation the caller holds
    current,                \* CalcInner::current
    coming_from_child,      \* CalcInner::coming_from_child
    root_hash,              \* hash of the last Finished, None before
    requests,               \* requests of the calculation, in the order emitted
    given_cache,            \* what root_merkle_value was given: "None" | "empty" | "primed"
    periodically_yield,     \* Client::periodically_yield
    main_task,              \* polls of the main task that will wake it up again
    timers,                 \* timers of delay zero started and not yet fired
    execution,              \* what the last call of advance_execution did
    chain,                  \* Option<init::Chain> at the chain id
    stream,                 \* responses produced and not yet taken from the stream
    waker,                  \* waker the stream holds: "None" | "NonEmpty" | "noop"
    produced,               \* responses the stream of the chain produced, in order
    exposed,                \* responses json_rpc_responses_peek took from the stream
    non_empty,              \* calls of bindings::json_rpc_responses_non_empty
    awaited,                \* the next response is awaited with a waker registered
    returned                \* last call on the chain and what it returned

tree_vars == <<blocks, blocks_by_hash, current_best>>
finalized_vars == <<finalized_block_header, finalized_block_hash,
                    finalized_consensus, finality, allow_unknown_consensus_engines>>
trie_vars == <<storage, entry_version, cache, calculation, current,
               coming_from_child, root_hash, requests, given_cache>>
client_vars == <<periodically_yield, main_task, timers, execution, chain,
                 stream, waker, produced, exposed, non_empty, awaited,
                 returned>>
vars == <<blocks, blocks_by_hash, current_best, finalized_block_header,
          finalized_block_hash, finalized_consensus, finality,
          allow_unknown_consensus_engines, inner, pc, context, insert_handle,
          parent_runtime, before, last, storage, entry_version, cache,
          calculation, current, coming_from_child, root_hash, requests,
          given_cache, periodically_yield, main_task, timers, execution,
          chain, stream, waker, produced, exposed, non_empty, awaited,
          returned>>

TreeValue == [blocks |-> blocks, blocks_by_hash |-> blocks_by_hash,
              current_best |-> current_best]


(***************************************************************************)
(* Consensus and finality descriptors.                                     *)
(***************************************************************************)

\* chain_information::BabeEpochInformation
BabeEpochInformation(index, start_slot, authorities) ==
    [epoch_index |-> index, start_slot_number |-> start_slot,
     authorities |-> authorities, randomness |-> index + 10, c |-> 4,
     allowed_slots |-> "PrimarySlots"]

ConsensusAura(authorities_list) ==
    [tag |-> "Aura", authorities_list |-> authorities_list]
ConsensusBabe(current_epoch, next_epoch) ==
    [tag |-> "Babe", current_epoch |-> current_epoch, next_epoch |-> next_epoch]

FinalityOutsourced == [tag |-> "Outsourced"]
FinalityGrandpa(prev, triggered, triggers, scheduled, set_id) ==
    [tag |-> "Grandpa",
     prev_auth_change_trigger_number |-> prev,
     triggered_authorities |-> triggered,
     triggers_change |-> triggers,
     scheduled_change |-> scheduled,
     after_block_authorities_set_id |-> set_id]

\* A pending scheduled change: (trigger height, authorities).
Scheduled(height, authorities) ==
    [trigger_height |-> height, authorities |-> authorities]

\* The header of the finalized block: number 0, its parent is unknown.
GenesisHeader == [parent_hash |-> ZeroHash, number |-> 0, digest |-> <<>>]

\* FinalizedConsensus descriptors the tree is built with.
FinalizedConsensusInputs ==
    { [tag |-> "Unknown"],
      [tag |-> "Aura", authorities_list |-> 1, slot_duration |-> 6],
      [tag |-> "Babe", block_epoch_information |-> None,
       next_epoch_transition |-> BabeEpochInformation(0, None, 1),
       slots_per_epoch |-> 2] }

\* Finality descriptors the tree is built with.  A finalized scheduled
\* change is strictly above the finalized block.
FinalityInputs ==
    { FinalityOutsourced }
        \cup { [tag |-> "Grandpa",
                after_finalized_block_authorities_set_id |-> 0,
                finalized_scheduled_change |-> sc,
                finalized_triggered_authorities |-> 1]
               : sc \in {None, Some(Scheduled(2, 2))} }

\* The (consensus, finality, allow_unknown_consensus_engines) triples of the
\* chains of the model.
ChainInputs ==
    { c \in FinalizedConsensusInputs \X FinalityInputs \X BOOLEAN :
        /\ c[1].tag = "Aura" \/ c[2].tag = "Outsourced"
        /\ c[3] => c[1].tag = "Unknown" }

NoContext ==
    [header |-> GenesisHeader, parent_tree_index |-> None,
     consensus |-> None, finality |-> FinalityOutsourced]

\* No verifier has reported a success.
NoSuccess ==
    [tag |-> "None", authorities_change |-> FALSE,
     epoch_transition_target |-> None, slot_number |-> 0]

\* `success` is what the verifier reported to the verification that built
\* the handle.
NoHandle ==
    [is_new_best |-> FALSE, ordering |-> "Less", hash |-> ZeroHash,
     consensus |-> None, finality |-> FinalityOutsourced,
     success |-> NoSuccess]

\* No header was given to the call.
NoInput == [decodable |-> FALSE, known |-> FALSE, parent_hash |-> ZeroHash]

\* What the last call returned: the operation, its result, the parent hash
\* a BadParent carries, and what the bytes given to verify_header /
\* verify_body were (see Submitted).
Returned(op, out) ==
    [op |-> op, out |-> out, parent_hash |-> None, input |-> NoInput]

\* No root calculation was started: the store is empty and there is no cache.
NoCalculation ==
    /\ storage = <<>>
    /\ cache = [structure |-> None]
    /\ calculation = "idle"
    /\ current = None
    /\ coming_from_child = FALSE
    /\ root_hash = None
    /\ requests = <<>>
    /\ given_cache = "None"

\* advance_execution was not called.
NoExecution == [periodically_yield |-> FALSE, steps |-> <<>>]

\* No call was made on the chain id.
NoCall == [op |-> "none", out |-> "Ok", ptr |-> 0, len |-> 0]

\* The client of the wasm node right after init, with periodic yielding
\* off: no chain, no timer, and a main task with nothing to execute.
NoClient ==
    /\ periodically_yield = FALSE
    /\ main_task = 0
    /\ timers = 0
    /\ execution = NoExecution
    /\ chain = None
    /\ stream = <<>>
    /\ waker = "None"
    /\ produced = <<>>
    /\ exposed = <<>>
    /\ non_empty = 0
    /\ awaited = FALSE
    /\ returned = NoCall

\* NonFinalizedTree::new: an empty tree on top of the finalized block.
Init ==
    /\ blocks = <<>>
    /\ blocks_by_hash = <<>>
    /\ current_best = None
    /\ finalized_block_header = GenesisHeader
    /\ finalized_block_hash = hash(GenesisHeader)
    /\ \E c \in ChainInputs :
        /\ finalized_consensus = c[1]
        /\ finality = c[2]
        /\ allow_unknown_consensus_engines = c[3]
    /\ inner = "tree"
    /\ pc = "idle"
    /\ context = NoContext
    /\ insert_handle = NoHandle
    /\ parent_runtime = "caller"
    /\ before = [blocks |-> <<>>, blocks_by_hash |-> <<>>, current_best |-> None]
    /\ last = Returned("new", "Ok")
    /\ entry_version = "V1"
    /\ NoCalculation
    /\ NoClient


(***************************************************************************)
(* NonFinalizedTreeInner::verify, up to the construction of the context.   *)
(***************************************************************************)

\* The consensus of the finalized block taken as Aura on every chain whose
\* engine is known.
FinalizedBlockConsensusAlwaysAura ==
    IF finalized_consensus.tag = "Unknown"
    THEN None
    ELSE Some(ConsensusAura(1))

\* Consensus and finality inherited from the finalized block.
FinalizedBlockConsensus ==
    CASE finalized_consensus.tag = "Unknown" -> None
      [] finalized_consensus.tag = "Aura" ->
            Some(ConsensusAura(finalized_consensus.authorities_list))
      [] finalized_consensus.tag = "Babe" ->
            Some(ConsensusBabe(finalized_consensus.block_epoch_information,
                               finalized_consensus.next_epoch_transition))

FinalizedBlockFinality ==
    IF finality.tag = "Outsourced"
    THEN FinalityOutsourced
    ELSE FinalityGrandpa(None, finality.finalized_triggered_authorities, FALSE,
                         finality.finalized_scheduled_change,
                         finality.after_finalized_block_authorities_set_id)

\* The debug_assert! on the finalized scheduled change (parent = finalized).
FinalizedScheduledChangeAssertion(decoded_header) ==
    \/ finality.tag = "Outsourced"
    \/ ~IsSome(finality.finalized_scheduled_change)
    \/ Unwrap(finality.finalized_scheduled_change).trigger_height
            >= decoded_header.number

\* debug_failed: the debug_assert! met on the way that do not hold.
Outcome(out, parent_hash, ctx, debug_failed) ==
    [out |-> out, parent_hash |-> parent_hash, context |-> ctx,
     debug_failed |-> debug_failed]

LocatedContext(decoded_header, parent_tree_index) ==
    IF IsSome(parent_tree_index)
    THEN [header |-> decoded_header,
          parent_tree_index |-> parent_tree_index,
          consensus |-> Some(blocks[Unwrap(parent_tree_index)].consensus),
          finality |-> blocks[Unwrap(parent_tree_index)].finality]
    ELSE [header |-> decoded_header,
          parent_tree_index |-> None,
          consensus |-> FinalizedBlockConsensus,
          finality |-> FinalizedBlockFinality]

\* The duplicate check, with the parent hash looked up instead of the hash
\* of the header.
IsDuplicateOfParent(scale_encoded_header) ==
    decode(scale_encoded_header).parent_hash \in DOMAIN blocks_by_hash

\* The duplicate check, with the hash of the bytes without the digest.
IsDuplicateOfOtherHash(scale_encoded_header) ==
    hash_from_scale_encoded_header(SubSeq(scale_encoded_header, 1, 2))
        \in DOMAIN blocks_by_hash

\* The check for duplicates: the hash of the bytes is a key of blocks_by_hash.
IsDuplicate(scale_encoded_header) ==
    hash_from_scale_encoded_header(scale_encoded_header) \in DOMAIN blocks_by_hash

\* The parent lookup, a parent in the tree taken for the finalized block.
ParentTreeIndexLost(decoded_header) ==
    IF decoded_header.parent_hash = finalized_block_hash
            \/ decoded_header.parent_hash \in DOMAIN blocks_by_hash
    THEN [found |-> TRUE, index |-> None]
    ELSE [found |-> FALSE, index |-> None]

\* The lookup of the parent block: `index` is None when it is the finalized
\* block, `found` is false when it is not known.
ParentTreeIndex(decoded_header) ==
    IF decoded_header.parent_hash = finalized_block_hash
    THEN [found |-> TRUE, index |-> None]
    ELSE IF decoded_header.parent_hash \in DOMAIN blocks_by_hash
    THEN [found |-> TRUE,
          index |-> Some(blocks_by_hash[decoded_header.parent_hash])]
    ELSE [found |-> FALSE, index |-> None]

\* BadParent carrying the hash of the header instead of its parent's.
BadParentOfSelf(decoded_header) ==
    Outcome("BadParent", Some(hash(decoded_header)), NoContext, {})

\* The BadParent error, which carries the parent hash of the header.
BadParent(decoded_header) ==
    Outcome("BadParent", Some(decoded_header.parent_hash), NoContext, {})

\* Decoding, duplicate check and parent lookup.  `out` is "Context" when the
\* verification goes on with the context built.
verify(scale_encoded_header) ==
    IF ~Decodable(scale_encoded_header)
    THEN Outcome("InvalidHeader", None, NoContext, {})
    ELSE
      LET decoded_header == decode(scale_encoded_header)
          parent == ParentTreeIndex(decoded_header)
      IN
      IF IsDuplicate(scale_encoded_header)
      THEN Outcome("Duplicate", None, NoContext, {})
      ELSE IF ~parent.found
      THEN BadParent(decoded_header)
      ELSE Outcome("Context", None,
                   LocatedContext(decoded_header, parent.index),
                   IF IsSome(parent.index)
                        \/ FinalizedScheduledChangeAssertion(decoded_header)
                   THEN {}
                   ELSE {"debug_assert finalized_scheduled_change"})

\* The header of the parent of the block being verified.
parent_block_header(ctx) ==
    IF IsSome(ctx.parent_tree_index)
    THEN blocks[Unwrap(ctx.parent_tree_index)].header
    ELSE finalized_block_header

\* The match with the wildcard arm ahead of the (Unknown, None) arm.
ConfigConsensusWildcardFirst(ctx) ==
    CASE finalized_consensus.tag = "Aura" /\ IsSome(ctx.consensus)
            /\ Unwrap(ctx.consensus).tag = "Aura" -> "Aura"
      [] finalized_consensus.tag = "Babe" /\ IsSome(ctx.consensus)
            /\ Unwrap(ctx.consensus).tag = "Babe" -> "Babe"
      [] OTHER -> "ConsensusMismatch"

\* The match on (finalized_consensus, context.consensus) that builds the
\* verifier's configuration: "Aura", "Babe", or the error it returns.
ConfigConsensus(ctx) ==
    CASE finalized_consensus.tag = "Aura" /\ IsSome(ctx.consensus)
            /\ Unwrap(ctx.consensus).tag = "Aura" -> "Aura"
      [] finalized_consensus.tag = "Babe" /\ IsSome(ctx.consensus)
            /\ Unwrap(ctx.consensus).tag = "Babe" -> "Babe"
      [] finalized_consensus.tag = "Unknown" /\ ~IsSome(ctx.consensus) ->
            "UnknownConsensusEngine"
      [] OTHER -> "ConsensusMismatch"


(***************************************************************************)
(* The verifiers (verify::header_only, verify::header_body) and the        *)
(* ordering of blocks (best_block) are outside of this file: what they     *)
(* return is a choice among the values their contract allows.              *)
(***************************************************************************)

\* Epoch a Babe block can announce as its epoch transition target.
TargetEpoch == BabeEpochInformation(1, Some(7), 2)

\* Slot number of a verified Babe block.
SlotNumbers == {5}

SuccessAura(authorities_change) ==
    [tag |-> "Aura", authorities_change |-> authorities_change,
     epoch_transition_target |-> None, slot_number |-> 0]
SuccessBabe(epoch_transition_target, slot_number) ==
    [tag |-> "Babe", authorities_change |-> FALSE,
     epoch_transition_target |-> epoch_transition_target,
     slot_number |-> slot_number]

\* What a verifier configured for `config` reports on success.
Successes(config) ==
    IF config = "Aura"
    THEN {SuccessAura(c) : c \in BOOLEAN}
    ELSE {SuccessBabe(t, s) : t \in {None, Some(TargetEpoch)}, s \in SlotNumbers}

\* A verifier accepts a block only if its number follows its parent's.
NumberFollowsParent(ctx) ==
    ctx.header.number = parent_block_header(ctx).number + 1

\* best_block::is_better_block: the higher block number wins, a tie is
\* broken by a rule of the consensus engine.
is_better_block(best_index, ctx) ==
    LET best_number == blocks[best_index].header.number IN
    IF ctx.header.number > best_number THEN {"Greater"}
    ELSE IF ctx.header.number < best_number THEN {"Less"}
    ELSE {"Less", "Equal", "Greater"}

\* Orderings the comparison with the current best block can give.
Orderings(ctx) ==
    IF IsSome(current_best)
    THEN is_better_block(Unwrap(current_best), ctx)
    ELSE {"Greater"}

(***************************************************************************)
(* VerifyContext::apply_success_body                                       *)
(***************************************************************************)

\* is_new_best, a block that compares equal to the best block taken as better.
IsNewBestOrEqual(ordering) ==
    IF IsSome(current_best) THEN ordering # "Less" ELSE TRUE

\* is_new_best, true only for the first block of the tree.
IsNewBestOnlyFirst(ordering) == ~IsSome(current_best)

IsNewBest(ordering) ==
    IF IsSome(current_best) THEN ordering = "Greater" ELSE TRUE

Derived(panic, value) == [panic |-> panic, value |-> value]

\* Epoch that becomes current at an epoch transition, its start slot always
\* set to the slot of the block.
PromotedEpochAlwaysPinned(next_epoch, slot_number) ==
    [start_slot_number |-> Some(slot_number),
     allowed_slots |-> next_epoch.allowed_slots,
     epoch_index |-> next_epoch.epoch_index,
     authorities |-> next_epoch.authorities,
     c |-> next_epoch.c,
     randomness |-> next_epoch.randomness]

\* Epoch that becomes current at an epoch transition.
PromotedEpoch(next_epoch, slot_number) ==
    IF IsSome(next_epoch.start_slot_number)
    THEN next_epoch
    ELSE [start_slot_number |-> Some(slot_number),
          allowed_slots |-> next_epoch.allowed_slots,
          epoch_index |-> next_epoch.epoch_index,
          authorities |-> next_epoch.authorities,
          c |-> next_epoch.c,
          randomness |-> next_epoch.randomness]

\* The epochs of a block without epoch transition, the next epoch taken
\* for the current one.
InheritedEpochsPromoted(current_epoch, next_epoch) ==
    ConsensusBabe(Some(next_epoch), next_epoch)

\* The epochs of a block without epoch transition are those of its parent.
InheritedEpochs(current_epoch, next_epoch) ==
    ConsensusBabe(current_epoch, next_epoch)

\* The match on (success, self.consensus, finalized_consensus, consensus of
\* the parent node).
DerivedConsensus(ctx, success) ==
    LET parent == IF IsSome(ctx.parent_tree_index)
                  THEN Some(blocks[Unwrap(ctx.parent_tree_index)].consensus)
                  ELSE None
        self_is(tag) == IsSome(ctx.consensus) /\ Unwrap(ctx.consensus).tag = tag
    IN
    CASE success.tag = "Aura" /\ self_is("Aura")
            /\ finalized_consensus.tag = "Aura" ->
            IF success.authorities_change
            THEN Derived("todo", ConsensusAura(0))
            ELSE Derived("", ConsensusAura(Unwrap(ctx.consensus).authorities_list))
      [] success.tag = "Babe" /\ IsSome(success.epoch_transition_target)
            /\ self_is("Babe") /\ finalized_consensus.tag = "Babe"
            /\ IsSome(parent) /\ Unwrap(parent).tag = "Babe" ->
            Derived("", ConsensusBabe(
                Some(PromotedEpoch(Unwrap(parent).next_epoch, success.slot_number)),
                Unwrap(success.epoch_transition_target)))
      [] success.tag = "Babe" /\ ~IsSome(success.epoch_transition_target)
            /\ self_is("Babe") /\ finalized_consensus.tag = "Babe"
            /\ IsSome(parent) /\ Unwrap(parent).tag = "Babe" ->
            Derived("", InheritedEpochs(Unwrap(parent).current_epoch,
                                        Unwrap(parent).next_epoch))
      [] success.tag = "Babe" /\ IsSome(success.epoch_transition_target)
            /\ self_is("Babe") /\ finalized_consensus.tag = "Babe"
            /\ ~IsSome(parent) ->
            Derived("", ConsensusBabe(
                Some(PromotedEpoch(finalized_consensus.next_epoch_transition,
                                   success.slot_number)),
                Unwrap(success.epoch_transition_target)))
      [] success.tag = "Babe" /\ ~IsSome(success.epoch_transition_target)
            /\ self_is("Babe") /\ finalized_consensus.tag = "Babe"
            /\ ~IsSome(parent) ->
            Derived("", InheritedEpochs(finalized_consensus.block_epoch_information,
                                        finalized_consensus.next_epoch_transition))
      [] OTHER -> Derived("unreachable", ConsensusAura(0))

\* u64::checked_add
checked_add(a, b) == IF a + b > MaxNumber THEN None ELSE Some(a + b)

\* The unwrap() of the trigger height of a scheduled change of the header
\* panics.
TriggerHeightOverflows(logs, number) ==
    \E i \in DOMAIN logs :
        /\ logs[i].kind = "ScheduledChange"
        /\ ~IsSome(checked_add(number, logs[i].delay))

\* The match on scheduled_change, the change of the header replacing the
\* pending one.
TakeScheduledLastWins(scheduled_change, number, change) ==
    Some(Scheduled(number + change.delay, change.next_authorities))

\* The match on scheduled_change: a change of the header is ignored while
\* one is pending.
TakeScheduled(scheduled_change, number, change) ==
    IF IsSome(scheduled_change)
    THEN scheduled_change
    ELSE Some(Scheduled(number + change.delay, change.next_authorities))

\* The loop over the Grandpa consensus logs of the header: the scheduled
\* change after the logs from position i on.
RECURSIVE ScheduledAfterLogs(_, _, _, _)
ScheduledAfterLogs(logs, i, number, scheduled_change) ==
    IF i > Len(logs)
    THEN scheduled_change
    ELSE IF logs[i].kind = "ScheduledChange"
    THEN ScheduledAfterLogs(logs, i + 1, number,
                            TakeScheduled(scheduled_change, number, logs[i]))
    ELSE ScheduledAfterLogs(logs, i + 1, number, scheduled_change)

\* The trigger step, the scheduled change left pending on the block that
\* triggers it.
ScheduledAfterTriggerKept(after_logs, triggers_change) == after_logs

\* A scheduled change that the block triggers is not pending any more.
ScheduledAfterTrigger(after_logs, triggers_change) ==
    IF triggers_change THEN None ELSE after_logs

\* prev_auth_change_trigger_number, the block itself taken for the block
\* that triggered the change.
PrevAuthChangeTriggerNumberOfSelf(parent, number) ==
    IF parent.triggers_change
    THEN Some(number)
    ELSE parent.prev_auth_change_trigger_number

\* prev_auth_change_trigger_number of the verified block.
PrevAuthChangeTriggerNumber(parent, number) ==
    IF parent.triggers_change
    THEN Some(number - 1)
    ELSE parent.prev_auth_change_trigger_number

\* after_block_authorities_set_id, bumped by every block.
AfterBlockAuthoritiesSetIdAlwaysBumped(parent, triggers_change) ==
    parent.after_block_authorities_set_id + 1

\* after_block_authorities_set_id of the verified block.
AfterBlockAuthoritiesSetId(parent, triggers_change) ==
    IF triggers_change
    THEN parent.after_block_authorities_set_id + 1
    ELSE parent.after_block_authorities_set_id

\* Finality of the verified block; debug_failed holds the debug_assert! of
\* the derivation that do not hold, panic the unwrap() that fails.
DerivedFinality(ctx) ==
    IF ctx.finality.tag = "Outsourced"
    THEN [panic |-> "", debug_failed |-> {}, value |-> FinalityOutsourced]
    ELSE
      LET parent == ctx.finality
          number == ctx.header.number
          after_logs == ScheduledAfterLogs(ctx.header.digest, 1, number,
                                           parent.scheduled_change)
          triggers_change == IsSome(after_logs)
                                /\ Unwrap(after_logs).trigger_height = number
          triggered_authorities == IF triggers_change
                                   THEN Unwrap(after_logs).authorities
                                   ELSE parent.triggered_authorities
          scheduled_change == ScheduledAfterTrigger(after_logs, triggers_change)
      IN
      [panic |-> IF TriggerHeightOverflows(ctx.header.digest, number)
                 THEN "checked_add" ELSE "",
       debug_failed |->
            (IF IsSome(scheduled_change)
                    /\ ~(Unwrap(scheduled_change).trigger_height > number)
             THEN {"debug_assert scheduled_change"} ELSE {})
            \cup
            (IF IsSome(parent.prev_auth_change_trigger_number)
                    /\ ~(Unwrap(parent.prev_auth_change_trigger_number) < number)
             THEN {"debug_assert prev_auth_change_trigger_number"} ELSE {}),
       value |->
            FinalityGrandpa(
                PrevAuthChangeTriggerNumber(parent, number),
                triggered_authorities,
                triggers_change,
                scheduled_change,
                AfterBlockAuthoritiesSetId(parent, triggers_change))]

apply_success_body(ctx, success, ordering) ==
    LET c == DerivedConsensus(ctx, success)
        f == DerivedFinality(ctx)
    IN [panic |-> IF c.panic # "" THEN c.panic ELSE f.panic,
        debug_failed |-> f.debug_failed,
        is_new_best |-> IsNewBest(ordering),
        ordering |-> ordering,
        success |-> success,
        consensus |-> c.value,
        finality |-> f.value]


(***************************************************************************)
(* Inputs of the environment.                                              *)
(***************************************************************************)

\* Block numbers of the submitted headers.
NumberInputs == 1 .. MaxBlocks

\* Parent hashes of the submitted headers: unknown, finalized, or in the tree.
ParentHashInputs == {ZeroHash, finalized_block_hash} \cup DOMAIN blocks_by_hash

\* Byte strings that are not the encoding of a header.
UndecodableInputs == {<<>>, <<ZeroHash, 1>>}

\* Digests of the submitted headers: a chain whose finality is outsourced
\* carries no Grandpa log.
DigestInputs ==
    IF finality.tag = "Grandpa" THEN GrandpaDigestInputs ELSE {<<>>}

HeaderInputs ==
    {<<ph, n, d>> : ph \in ParentHashInputs, n \in NumberInputs, d \in DigestInputs}
        \cup UndecodableInputs

\* What the submitted bytes are when the call is made: whether they are the
\* encoding of a header, whether their hash is a key of blocks_by_hash, and
\* the parent hash they carry.
Submitted(scale_encoded_header) ==
    [decodable |-> Decodable(scale_encoded_header),
     known |-> hash_from_scale_encoded_header(scale_encoded_header)
                    \in DOMAIN blocks_by_hash,
     parent_hash |-> IF Decodable(scale_encoded_header)
                     THEN decode(scale_encoded_header).parent_hash
                     ELSE ZeroHash]

(***************************************************************************)
(* Outcomes of one call: what is returned, and the object handed out.      *)
(***************************************************************************)

Return(out, parent_hash) ==
    [kind |-> "return", out |-> out, parent_hash |-> parent_hash,
     context |-> NoContext, handle |-> NoHandle]

Panic(reason) ==
    [kind |-> "panic", out |-> reason, parent_hash |-> None,
     context |-> NoContext, handle |-> NoHandle]

\* The insert handle, its hash taken from the wrong field of the header.
HandleOfParentHash(ctx, applied) ==
    [kind |-> "handle", out |-> "Insert", parent_hash |-> None,
     context |-> ctx,
     handle |-> [is_new_best |-> applied.is_new_best,
                 ordering |-> applied.ordering,
                 success |-> applied.success,
                 hash |-> ctx.header.parent_hash,
                 consensus |-> Some(applied.consensus),
                 finality |-> Some(applied.finality)]]

\* The insert handle of a successful verification (HeaderVerifySuccess::Insert,
\* BodyVerifyStep2::Finished).
Handle(ctx, applied) ==
    [kind |-> "handle", out |-> "Insert", parent_hash |-> None,
     context |-> ctx,
     handle |-> [is_new_best |-> applied.is_new_best,
                 ordering |-> applied.ordering,
                 success |-> applied.success,
                 hash |-> hash(ctx.header),
                 consensus |-> Some(applied.consensus),
                 finality |-> Some(applied.finality)]]

Suspend(ctx, state) ==
    [kind |-> "suspend", out |-> state, parent_hash |-> None,
     context |-> ctx, handle |-> NoHandle]

\* A debug_assert! that does not hold panics in a build with debug
\* assertions and is skipped in a build without them.
DebugAssert(failed) == {Panic(name) : name \in failed}

\* apply_success_header / apply_success_body followed by the construction of
\* the insert handle.
ApplyOutcomes(ctx, success, ordering) ==
    LET applied == apply_success_body(ctx, success, ordering) IN
    IF applied.panic # ""
    THEN {Panic(applied.panic)}
    ELSE DebugAssert(applied.debug_failed) \cup {Handle(ctx, applied)}

SuccessOutcomes(ctx, config) ==
    IF NumberFollowsParent(ctx)
    THEN UNION {ApplyOutcomes(ctx, success, ordering) :
                    success \in Successes(config), ordering \in Orderings(ctx)}
    ELSE {}

\* NonFinalizedTreeInner::verify with full = false.
HeaderOutcomes(scale_encoded_header) ==
    LET o == verify(scale_encoded_header) IN
    IF o.out # "Context"
    THEN {Return(o.out, o.parent_hash)}
    ELSE DebugAssert(o.debug_failed) \cup
         (LET config == ConfigConsensus(o.context) IN
          IF config \in {"UnknownConsensusEngine", "ConsensusMismatch"}
          THEN {Return(config, None)}
          ELSE {Return("VerificationFailed", None)}
                    \cup SuccessOutcomes(o.context, config))

\* NonFinalizedTreeInner::verify with full = true.
BodyStep1Outcomes(scale_encoded_header) ==
    LET o == verify(scale_encoded_header) IN
    IF o.out # "Context"
    THEN {Return(o.out, o.parent_hash)}
    ELSE DebugAssert(o.debug_failed)
            \cup {Suspend(o.context, "ParentRuntimeRequired")}

\* The suspensions of verify::header_body::Verify.
StorageSuspensions ==
    {"StorageGet", "StoragePrefixKeys", "StorageNextKey", "RuntimeCompilation"}

\* VerifyContext::with_body_verify over every state the body verifier can
\* be in.
with_body_verify(ctx, config) ==
    {Return("Consensus", None)}
        \cup {Suspend(ctx, s) : s \in StorageSuspensions}
        \cup SuccessOutcomes(ctx, config)

\* BodyVerifyRuntimeRequired::resume
ResumeOutcomes(ctx) ==
    LET config == ConfigConsensus(ctx) IN
    IF config \in {"UnknownConsensusEngine", "ConsensusMismatch"}
    THEN {Return(config, None)}
    ELSE with_body_verify(ctx, config)


(***************************************************************************)
(* Actions.                                                                *)
(***************************************************************************)

\* Where the inner state of the tree is, an InvalidHeader of the header
\* path not putting it back.
InnerAfterNotPutBack(op, o) ==
    CASE o.kind = "return" /\ op = "verify_header" /\ o.out = "InvalidHeader" ->
            "context"
      [] o.kind = "return" -> "tree"
      [] o.kind = "panic" -> "dropped"
      [] OTHER -> "context"

\* Where the inner state of the tree is, BodyVerifyStep2::Error not
\* carrying the chain.
InnerAfterErrorWithoutChain(op, o) ==
    CASE o.kind = "return" /\ op \notin {"verify_header", "verify_body"} ->
            "dropped"
      [] o.kind = "return" -> "tree"
      [] o.kind = "panic" -> "dropped"
      [] OTHER -> "context"

\* Where the inner state of the tree is after a call: given back with what
\* is returned, lost in a panic, owned by the context otherwise.
InnerAfter(op, o) ==
    CASE o.kind = "return" -> "tree"
      [] o.kind = "panic" -> "dropped"
      [] OTHER -> "context"

\* Who holds the parent runtime, BodyVerifyStep2::Error not carrying it.
RuntimeAfterErrorWithoutRuntime(op, o) ==
    CASE o.kind = "panic" /\ parent_runtime = "verification" -> "dropped"
      [] o.kind = "panic" /\ op = "resume" -> "dropped"
      [] o.kind = "suspend" /\ o.out # "ParentRuntimeRequired" -> "verification"
      [] o.kind = "return" /\ op \notin {"verify_header", "verify_body"} ->
            "dropped"
      [] OTHER -> "caller"

\* Who holds the parent runtime after a call: resume moves it into the body
\* verifier, which keeps it while suspended and gives it back in Finished
\* and in Error; a panic drops it with the verifier.
RuntimeAfter(op, o) ==
    CASE o.kind = "panic" /\ parent_runtime = "verification" -> "dropped"
      [] o.kind = "panic" /\ op = "resume" -> "dropped"
      [] o.kind = "suspend" /\ o.out # "ParentRuntimeRequired" -> "verification"
      [] OTHER -> "caller"

\* The verification object the caller holds after a call of `op` whose
\* outcome is o.  `handle_state` is the insert handle the path produces.
Held(op, input, o, handle_state) ==
    /\ pc' = CASE o.kind = "return" -> "idle"
               [] o.kind = "panic" -> "panic"
               [] o.kind = "handle" -> handle_state
               [] o.kind = "suspend" -> o.out
    /\ inner' = InnerAfter(op, o)
    /\ context' = o.context
    /\ insert_handle' = o.handle
    /\ parent_runtime' = RuntimeAfter(op, o)
    /\ last' = [op |-> IF o.kind \in {"return", "panic"}
                            \/ op \in {"verify_header", "verify_body"}
                         THEN op ELSE "step",
                out |-> o.out, parent_hash |-> o.parent_hash,
                input |-> input]
    /\ UNCHANGED <<finalized_vars, trie_vars, client_vars>>

\* A call that makes the verified block the best block as soon as the
\* verification succeeds.
SettleBestAtVerification(op, input, o, handle_state) ==
    /\ Held(op, input, o, handle_state)
    /\ current_best' = IF o.kind = "handle" /\ o.handle.is_new_best
                       THEN Some(Len(blocks) + 1)
                       ELSE current_best
    /\ UNCHANGED <<blocks, blocks_by_hash>>

\* The state after a call of `op` whose outcome is o: no step of a
\* verification writes to the tree.
Settle(op, input, o, handle_state) ==
    /\ Held(op, input, o, handle_state)
    /\ UNCHANGED tree_vars

\* verify_header callable while a HeaderInsert holds the tree.
verify_header_without_borrow ==
    /\ pc \in {"idle", "HeaderInsert"}
    /\ Len(blocks) < MaxBlocks
    /\ \E scale_encoded_header \in HeaderInputs :
         \E o \in HeaderOutcomes(scale_encoded_header) :
            Settle("verify_header", Submitted(scale_encoded_header), o,
                   "HeaderInsert")
    /\ before' = TreeValue

\* NonFinalizedTree::verify_header
verify_header ==
    /\ pc = "idle"
    /\ inner = "tree"
    /\ Len(blocks) < MaxBlocks
    /\ \E scale_encoded_header \in HeaderInputs :
         \E o \in HeaderOutcomes(scale_encoded_header) :
            Settle("verify_header", Submitted(scale_encoded_header), o,
                   "HeaderInsert")
    /\ before' = TreeValue

\* NonFinalizedTree::verify_body
verify_body ==
    /\ pc = "idle"
    /\ inner = "tree"
    /\ Len(blocks) < MaxBlocks
    /\ \E scale_encoded_header \in HeaderInputs :
         \E o \in BodyStep1Outcomes(scale_encoded_header) :
            Settle("verify_body", Submitted(scale_encoded_header), o,
                   "BodyInsert")
    /\ before' = TreeValue

\* BodyVerifyRuntimeRequired::resume
resume ==
    /\ pc = "ParentRuntimeRequired"
    /\ \E o \in ResumeOutcomes(context) : Settle("resume", NoInput, o, "BodyInsert")
    /\ UNCHANGED before

\* A resumption of the body verifier from the suspension `state`.
Resumption(op, state) ==
    /\ pc = state
    /\ \E o \in with_body_verify(context, ConfigConsensus(context)) :
            Settle(op, NoInput, o, "BodyInsert")
    /\ UNCHANGED before

\* StorageGet::inject_value
inject_value == Resumption("inject_value", "StorageGet")

\* StoragePrefixKeys::inject_keys_ordered
inject_keys_ordered == Resumption("inject_keys_ordered", "StoragePrefixKeys")

\* StorageNextKey::inject_key
inject_key == Resumption("inject_key", "StorageNextKey")

\* RuntimeCompilation::build
build == Resumption("build", "RuntimeCompilation")

\* The object consumed without the inner state being put back.
GiveBackWithoutChain(op) ==
    /\ pc' = "idle"
    /\ inner' = "dropped"
    /\ context' = NoContext
    /\ insert_handle' = NoHandle
    /\ last' = Returned(op, "Ok")
    /\ UNCHANGED <<tree_vars, finalized_vars, parent_runtime, before, trie_vars, client_vars>>

\* The tree handed back as it is.
GiveBack(op) ==
    /\ pc' = "idle"
    /\ inner' = "tree"
    /\ context' = NoContext
    /\ insert_handle' = NoHandle
    /\ last' = Returned(op, "Ok")
    /\ UNCHANGED <<tree_vars, finalized_vars, parent_runtime, before, trie_vars, client_vars>>

\* BodyVerifyRuntimeRequired::abort
RuntimeRequiredAbort ==
    /\ pc = "ParentRuntimeRequired"
    /\ GiveBack("abort")

\* BodyInsert::abort
BodyInsertAbort ==
    /\ pc = "BodyInsert"
    /\ GiveBack("BodyInsert::abort")

\* HeaderInsert::into_header
into_header ==
    /\ pc = "HeaderInsert"
    /\ GiveBack("into_header")

\* Drop for HeaderInsert, the inner state not put back.
HeaderInsertDropWithoutPutBack ==
    /\ pc = "HeaderInsert"
    /\ GiveBackWithoutChain("drop")

\* Drop for HeaderInsert, the handle still holding its context.
HeaderInsertDrop ==
    /\ pc = "HeaderInsert"
    /\ GiveBack("drop")

\* A suspension of the body path or the BodyInsert handle goes out of scope:
\* the context it owns is dropped, and the tree with it.
BodyVerificationDrop ==
    /\ pc \in {"ParentRuntimeRequired", "BodyInsert"} \cup StorageSuspensions
    /\ pc' = "dropped"
    /\ inner' = "dropped"
    /\ context' = NoContext
    /\ insert_handle' = NoHandle
    /\ parent_runtime' = IF parent_runtime = "verification"
                         THEN "dropped" ELSE parent_runtime
    /\ last' = Returned("drop", "Ok")
    /\ UNCHANGED <<tree_vars, finalized_vars, before, trie_vars, client_vars>>

\* fork_tree::ForkTree::insert: the new node gets the next index.
ForkTreeInsert(tree, parent, block) ==
    Append(tree, [parent |-> parent, header |-> block.header,
                  hash |-> block.hash, consensus |-> block.consensus,
                  finality |-> block.finality])

\* HashMap::insert
MapInsert(map, key, value) ==
    [k \in DOMAIN map \cup {key} |-> IF k = key THEN value ELSE map[k]]

\* The update of current_best, the inserted block always taken as best.
BestAfterInsertAlways(is_new_best, new_node_index) == Some(new_node_index)

\* current_best after an insertion.
BestAfterInsert(is_new_best, new_node_index) ==
    IF is_new_best THEN Some(new_node_index) ELSE current_best

\* The body shared by HeaderInsert::insert and BodyInsert::insert.
InsertBlock(op) ==
    LET new_node_index == Len(blocks) + 1
        block == [header |-> context.header, hash |-> insert_handle.hash,
                  consensus |-> Unwrap(insert_handle.consensus),
                  finality |-> Unwrap(insert_handle.finality)]
        prev_value == IF insert_handle.hash \in DOMAIN blocks_by_hash
                      THEN Some(blocks_by_hash[insert_handle.hash])
                      ELSE None
        lengths_agree == Len(blocks) = Cardinality(DOMAIN blocks_by_hash)
    IN
    \/ /\ ~lengths_agree
       /\ pc' = "panic"
       /\ inner' = "dropped"
       /\ last' = Returned(op, "debug_assert lengths")
       /\ UNCHANGED <<tree_vars, context, insert_handle>>
    \/ /\ blocks' = ForkTreeInsert(blocks, context.parent_tree_index, block)
       /\ blocks_by_hash' = MapInsert(blocks_by_hash, insert_handle.hash,
                                      new_node_index)
       /\ IF IsSome(prev_value)
          THEN /\ pc' = "panic"
               /\ inner' = "dropped"
               /\ last' = Returned(op, "assert")
               /\ UNCHANGED <<current_best, context, insert_handle>>
          ELSE /\ current_best' = BestAfterInsert(insert_handle.is_new_best,
                                                  new_node_index)
               /\ pc' = "idle"
               /\ inner' = "tree"
               /\ last' = Returned(op, "Ok")
               /\ context' = NoContext
               /\ insert_handle' = NoHandle

\* HeaderInsert::insert
HeaderInsertInsert ==
    /\ pc = "HeaderInsert"
    /\ InsertBlock("HeaderInsert::insert")
    /\ UNCHANGED <<finalized_vars, parent_runtime, before, trie_vars, client_vars>>

\* BodyInsert::insert
BodyInsertInsert ==
    /\ pc = "BodyInsert"
    /\ InsertBlock("BodyInsert::insert")
    /\ UNCHANGED <<finalized_vars, parent_runtime, before, trie_vars, client_vars>>

Next ==
    \/ verify_header
    \/ verify_body
    \/ resume
    \/ inject_value
    \/ inject_keys_ordered
    \/ inject_key
    \/ build
    \/ RuntimeRequiredAbort
    \/ BodyInsertAbort
    \/ into_header
    \/ HeaderInsertDrop
    \/ HeaderInsertInsert
    \/ BodyInsertInsert
    \/ BodyVerificationDrop

Spec == Init /\ [][Next]_vars


(***************************************************************************)
(* Properties.                                                             *)
(***************************************************************************)

InsertOps == {"HeaderInsert::insert", "BodyInsert::insert"}
VerifyOps == {"verify_header", "verify_body"}
InsertHandles == {"HeaderInsert", "BodyInsert"}

\* C1: a step that changes blocks, blocks_by_hash or current_best is a call
\* of HeaderInsert::insert or BodyInsert::insert; no verify_header,
\* verify_body, resume, inject_value, inject_keys_ordered, inject_key, build
\* or abort changes them.
C1_TreeFrame ==
    [][ tree_vars' # tree_vars =>
            /\ pc \in InsertHandles
            /\ last'.op \in InsertOps ]_vars

\* A body verification past its first resumption, on a tree that holds a
\* block, the tree as it was when the verification started.
C1_Witness ==
    /\ pc \in StorageSuspensions
    /\ Len(blocks) >= 1
    /\ TreeValue = before

\* C2: verify_header and verify_body given a decodable header whose hash is
\* a key of blocks_by_hash answer Duplicate and leave the tree as it was.
C2_Duplicate ==
    (last.op \in VerifyOps /\ last.input.decodable /\ last.input.known) =>
        /\ last.out = "Duplicate"
        /\ pc = "idle"
        /\ inner = "tree"
        /\ TreeValue = before

\* A header of the tree was verified again, through the body path.
C2_Witness ==
    /\ last.op = "verify_body"
    /\ last.out = "Duplicate"
    /\ last.input.known
    /\ Len(blocks) >= 1

\* C3: verify_header and verify_body given a decodable header that is not
\* in the tree and whose parent hash is neither the finalized hash nor the
\* hash of a node answer BadParent with that parent hash, the tree unchanged.
C3_BadParent ==
    (/\ last.op \in VerifyOps
     /\ last.input.decodable
     /\ ~last.input.known
     /\ last.input.parent_hash # finalized_block_hash
     /\ \A i \in 1 .. Len(before.blocks) :
            before.blocks[i].hash # last.input.parent_hash) =>
        /\ last.out = "BadParent"
        /\ last.parent_hash = Some(last.input.parent_hash)
        /\ pc = "idle"
        /\ inner = "tree"
        /\ TreeValue = before

\* BadParent was answered by the header path on a tree that holds a block.
C3_Witness ==
    /\ last.op = "verify_header"
    /\ last.out = "BadParent"
    /\ last.parent_hash = Some(ZeroHash)
    /\ Len(blocks) >= 1

\* C4: verify_header and verify_body given bytes that do not decode answer
\* InvalidHeader; the tree is unchanged, holds its inner state and can take
\* the next verification.
C4_InvalidHeader ==
    (last.op \in VerifyOps /\ ~last.input.decodable) =>
        /\ last.out = "InvalidHeader"
        /\ pc = "idle"
        /\ inner = "tree"
        /\ TreeValue = before

\* InvalidHeader was answered by the header path on a tree that holds a block.
C4_Witness ==
    /\ last.op = "verify_header"
    /\ last.out = "InvalidHeader"
    /\ Len(blocks) >= 1

\* C5: blocks and blocks_by_hash have the same size, and blocks_by_hash is a
\* bijection between the hashes of the nodes and their indices.
C5_HashIndexBijection ==
    /\ Len(blocks) = Cardinality(DOMAIN blocks_by_hash)
    /\ \A i \in 1 .. Len(blocks) :
            /\ blocks[i].hash \in DOMAIN blocks_by_hash
            /\ blocks_by_hash[blocks[i].hash] = i
    /\ \A h \in DOMAIN blocks_by_hash :
            /\ blocks_by_hash[h] \in 1 .. Len(blocks)
            /\ blocks[blocks_by_hash[h]].hash = h

\* Two blocks were inserted, the last one through the header path.
C5_Witness ==
    /\ Len(blocks) >= 2
    /\ last.op = "HeaderInsert::insert"

\* C6: every node is indexed by its hash, and is either a root whose header
\* has the finalized hash as parent hash, or a child of the node whose hash
\* is the parent hash of its header.
C6_ParentRelation ==
    \A i \in 1 .. Len(blocks) :
        /\ blocks[i].hash \in DOMAIN blocks_by_hash
        /\ blocks_by_hash[blocks[i].hash] = i
        /\ IF IsSome(blocks[i].parent)
           THEN /\ Unwrap(blocks[i].parent) \in 1 .. Len(blocks)
                /\ blocks[Unwrap(blocks[i].parent)].hash
                        = blocks[i].header.parent_hash
           ELSE blocks[i].header.parent_hash = finalized_block_hash

\* The tree holds a root and a child of a node.
C6_Witness ==
    /\ \E i \in 1 .. Len(blocks) : ~IsSome(blocks[i].parent)
    /\ \E i \in 1 .. Len(blocks) : IsSome(blocks[i].parent)

\* C7: a scheduled change pending on a node with Grandpa finality triggers
\* strictly above the number of the node, and the debug_assert! on
\* scheduled_change of the derivation never fails.
C7_ScheduledAboveHeight ==
    /\ last.out # "debug_assert scheduled_change"
    /\ \A i \in 1 .. Len(blocks) :
          (blocks[i].finality.tag = "Grandpa"
                /\ IsSome(blocks[i].finality.scheduled_change)) =>
            Unwrap(blocks[i].finality.scheduled_change).trigger_height
                > blocks[i].header.number

\* The tree holds a node with a pending scheduled change and a node that
\* triggered one.
C7_Witness ==
    /\ \E i \in 1 .. Len(blocks) :
            /\ blocks[i].finality.tag = "Grandpa"
            /\ IsSome(blocks[i].finality.scheduled_change)
    /\ \E i \in 1 .. Len(blocks) :
            /\ blocks[i].finality.tag = "Grandpa"
            /\ blocks[i].finality.triggers_change

\* C8: an insert that returns adds one node, made of the verified header, its
\* hash and the derived consensus and finality, under the located parent;
\* adds hash -> new index to blocks_by_hash; sets current_best to the new
\* node iff is_new_best; changes no other node and no finalized-side field.
\* On an empty tree is_new_best is true and the tree gets length 1.
C8_Insert ==
    [][ (pc \in InsertHandles /\ pc' = "idle" /\ last'.op \in InsertOps) =>
            LET new_node_index == Len(blocks) + 1 IN
            /\ Len(blocks') = new_node_index
            /\ SubSeq(blocks', 1, Len(blocks)) = blocks
            /\ blocks'[new_node_index].header = context.header
            /\ blocks'[new_node_index].hash = insert_handle.hash
            /\ blocks'[new_node_index].consensus = Unwrap(insert_handle.consensus)
            /\ blocks'[new_node_index].finality = Unwrap(insert_handle.finality)
            /\ blocks'[new_node_index].parent =
                    (IF context.header.parent_hash = finalized_block_hash
                     THEN None
                     ELSE Some(blocks_by_hash[context.header.parent_hash]))
            /\ insert_handle.hash \notin DOMAIN blocks_by_hash
            /\ DOMAIN blocks_by_hash' =
                    DOMAIN blocks_by_hash \cup {insert_handle.hash}
            /\ blocks_by_hash'[insert_handle.hash] = new_node_index
            /\ \A h \in DOMAIN blocks_by_hash :
                    blocks_by_hash'[h] = blocks_by_hash[h]
            /\ current_best' = (IF insert_handle.is_new_best
                                THEN Some(new_node_index)
                                ELSE current_best)
            /\ blocks = <<>> =>
                    (insert_handle.is_new_best /\ current_best' = Some(1))
            /\ finalized_vars' = finalized_vars
            /\ inner' = "tree" ]_vars

\* A block that is not the new best block was inserted.
C8_Witness ==
    /\ last.op \in InsertOps
    /\ pc = "idle"
    /\ Len(blocks) >= 2
    /\ current_best # Some(Len(blocks))

\* The calls that end a body verification without inserting.
BodyTerminalOps ==
    {"verify_body", "resume", "inject_value", "inject_keys_ordered",
     "inject_key", "build", "abort", "BodyInsert::abort"}

\* C9: every return of the body path that ends the verification gives the
\* tree back: after Duplicate, InvalidHeader, BadParent, Error and abort the
\* tree is the one passed in, after BodyInsert::insert the caller holds it.
C9_TreeHandedBack ==
    /\ (pc = "idle" /\ last.op \in BodyTerminalOps) =>
            (inner = "tree" /\ TreeValue = before)
    /\ (pc = "idle" /\ last.op = "BodyInsert::insert") => inner = "tree"

\* A body verification ended with an Error after a storage request, on a
\* tree that holds a block.
C9_Witness ==
    /\ pc = "idle"
    /\ last.op = "inject_value"
    /\ last.out = "Consensus"
    /\ Len(blocks) >= 1

\* A call of abort() on the object the caller holds.
AbortCall == RuntimeRequiredAbort \/ BodyInsertAbort

\* C10: at every suspension of the body path abort() can be called.
C10_AbortAtEverySuspension ==
    pc \in {"ParentRuntimeRequired"} \cup StorageSuspensions => ENABLED AbortCall


\* The objects of the body path that own the tree.
BodyObjects == {"ParentRuntimeRequired", "BodyInsert"} \cup StorageSuspensions

\* C11 as stated: a body verification that was dropped gives the tree back
\* unchanged.
C11_DropReturnsTree ==
    pc = "dropped" => (inner = "tree" /\ TreeValue = before)

\* C11 as amended: in the body path abort() of BodyVerifyRuntimeRequired and
\* of BodyInsert gives the tree back unchanged; a suspension or a BodyInsert
\* that is dropped does not give the tree back, it is dropped with the
\* context that owns it.
C11_TreeReleasedByAbort ==
    [][ (pc \in BodyObjects) =>
            /\ last'.op \in {"abort", "BodyInsert::abort"} =>
                    /\ pc \in {"ParentRuntimeRequired", "BodyInsert"}
                    /\ pc' = "idle"
                    /\ inner' = "tree"
                    /\ tree_vars' = tree_vars
                    /\ TreeValue' = before
            /\ pc' = "dropped" => inner' = "dropped" ]_vars

\* A body verification on a tree that holds a block was dropped.
C11_Witness ==
    /\ pc = "dropped"
    /\ inner = "dropped"
    /\ Len(blocks) >= 1

\* C12: in the header path the inner state of the tree is present again
\* after verify_header returns an error or Duplicate and after a HeaderInsert
\* is consumed by insert, into_header or drop; after into_header or drop the
\* tree is the one before the verification and verify_header can be called.
C12_InnerPutBack ==
    /\ (pc = "idle" /\ last.op \in {"verify_header", "HeaderInsert::insert",
                                    "into_header", "drop"}) => inner = "tree"
    /\ (pc = "idle" /\ last.op \in {"into_header", "drop"}) =>
            /\ TreeValue = before
            /\ ENABLED verify_header

\* A HeaderInsert was dropped on a tree that holds a block.
C12_Witness ==
    /\ pc = "idle"
    /\ last.op = "drop"
    /\ inner = "tree"
    /\ Len(blocks) >= 1

\* C13: the parent runtime is held by the verification while the body
\* verifier is suspended, and by the caller before resume and after every
\* return that ends the verification (Finished, Error, abort).
C13_ParentRuntimeReturned ==
    /\ pc \in StorageSuspensions => parent_runtime = "verification"
    /\ pc \in {"idle", "ParentRuntimeRequired", "BodyInsert", "HeaderInsert"} =>
            parent_runtime = "caller"

\* The body verifier ended with an Error after holding the parent runtime.
C13_Witness ==
    /\ pc = "idle"
    /\ last.op = "build"
    /\ last.out = "Consensus"
    /\ parent_runtime = "caller"

\* C14: current_best, if present, is a node of blocks and no node has a
\* number above the number of the best block; it is absent only while the
\* tree is empty.
C14_BestBlock ==
    /\ IsSome(current_best) =>
            /\ Unwrap(current_best) \in 1 .. Len(blocks)
            /\ \A i \in 1 .. Len(blocks) :
                    blocks[i].header.number
                        <= blocks[Unwrap(current_best)].header.number
    /\ ~IsSome(current_best) => blocks = <<>>

\* The best block is at height 2 and is not the last block inserted.
C14_Witness ==
    /\ IsSome(current_best)
    /\ Unwrap(current_best) < Len(blocks)
    /\ blocks[Unwrap(current_best)].header.number >= 2

\* C15: is_new_best of a successful verification is true when there is no
\* best block; otherwise it is true exactly when the block compares Greater
\* than the best block, which it does when its number is higher and does not
\* when its number is lower.
C15_IsNewBest ==
    pc \in InsertHandles =>
        /\ ~IsSome(current_best) => insert_handle.is_new_best
        /\ IsSome(current_best) =>
            LET best_number == blocks[Unwrap(current_best)].header.number IN
            /\ insert_handle.is_new_best <=> insert_handle.ordering = "Greater"
            /\ context.header.number > best_number => insert_handle.is_new_best
            /\ context.header.number < best_number => ~insert_handle.is_new_best

\* A verified block compares equal to the best block and is not the new best.
C15_Witness ==
    /\ pc \in InsertHandles
    /\ IsSome(current_best)
    /\ insert_handle.ordering = "Equal"
    /\ ~insert_handle.is_new_best

\* finalized_consensus and the consensus inherited by the block do not go
\* together.
Mismatch(consensus) ==
    ~ \/ finalized_consensus.tag = "Unknown" /\ ~IsSome(consensus)
      \/ IsSome(consensus) /\ Unwrap(consensus).tag = finalized_consensus.tag
                /\ finalized_consensus.tag \in {"Aura", "Babe"}

\* What a consensus configuration error leaves: nothing held, the tree and
\* the parent runtime with the caller, the tree unchanged.
ConfigErrorReturned ==
    /\ pc' = "idle"
    /\ inner' = "tree"
    /\ insert_handle' = NoHandle
    /\ parent_runtime' = "caller"
    /\ tree_vars' = tree_vars

RECURSIVE bytes_to_nibbles(_)
bytes_to_nibbles(key) ==
    IF key = <<>>
    THEN <<>>
    ELSE <<key[1] \div 16, key[1] % 16>> \o bytes_to_nibbles(Tail(key))

\* The bytes of a full key, two nibbles a byte (StorageValue::key).
RECURSIVE nibbles_to_bytes(_)
nibbles_to_bytes(full_key) ==
    IF Len(full_key) < 2
    THEN <<>>
    ELSE <<(full_key[1] * 16) + full_key[2]>>
            \o nibbles_to_bytes(SubSeq(full_key, 3, Len(full_key)))

IsPrefix(p, k) == Len(p) <= Len(k) /\ SubSeq(k, 1, Len(p)) = p

RECURSIVE CommonPrefix(_, _)
CommonPrefix(a, b) ==
    IF a = <<>> \/ b = <<>> \/ a[1] # b[1]
    THEN <<>>
    ELSE <<a[1]>> \o CommonPrefix(Tail(a), Tail(b))

\* The longest of a non-empty set of keys.
Longest(keys) == CHOOSE x \in keys : \A y \in keys : Len(y) <= Len(x)

\* TrieStructure::new
EmptyStructure == <<>>

Restrict(t, nodes) == [n \in nodes |-> t[n]]

Ancestors(t, n) == {a \in DOMAIN t : a # n /\ IsPrefix(a, n)}

\* NodeAccess::into_parent
parent_node(t, n) ==
    IF Ancestors(t, n) = {} THEN None ELSE Some(Longest(Ancestors(t, n)))

\* NodeAccess::is_root_node
is_root_node(t, n) == Ancestors(t, n) = {}

\* TrieStructure::root_node
root_node(t) ==
    IF DOMAIN t = {}
    THEN None
    ELSE Some(CHOOSE n \in DOMAIN t : is_root_node(t, n))

ChildrenOf(t, n) == {c \in DOMAIN t : parent_node(t, c) = Some(n)}

\* The nibble under which node c hangs below its parent p.
ChildIndex(p, c) == c[Len(p) + 1]

\* NodeAccess::partial_key
partial_key(t, n) ==
    IF is_root_node(t, n)
    THEN n
    ELSE SubSeq(n, Len(Unwrap(parent_node(t, n))) + 2, Len(n))

\* NodeAccess::into_first_child
into_first_child(t, n) ==
    LET ch == ChildrenOf(t, n) IN
    IF ch = {}
    THEN None
    ELSE Some(CHOOSE c \in ch :
                \A d \in ch : ChildIndex(n, c) <= ChildIndex(n, d))

\* NodeAccess::into_next_sibling
into_next_sibling(t, n) ==
    IF is_root_node(t, n)
    THEN None
    ELSE LET p == Unwrap(parent_node(t, n))
             later == {c \in ChildrenOf(t, p) : ChildIndex(p, c) > ChildIndex(p, n)}
         IN IF later = {}
            THEN None
            ELSE Some(CHOOSE c \in later :
                        \A d \in later : ChildIndex(p, c) <= ChildIndex(p, d))

\* TrieStructure::node: the entry at a key.
node(t, k) ==
    IF k \notin DOMAIN t THEN "Vacant"
    ELSE IF t[k].has_storage_value THEN "Storage" ELSE "Branch"

\* CacheEntry::default
DefaultEntry(has_storage_value) ==
    [has_storage_value |-> has_storage_value, merkle_value |-> None]

\* Vacant::insert_storage_value: One when the storage node alone is inserted
\* (as a leaf, or between a node and its child), Two when a branch node is
\* inserted with it, at the point where the key leaves an existing edge.
insert_storage_value(t, k) ==
    IF DOMAIN t = {}
    THEN [kind |-> "One", branch |-> None]
    ELSE LET meet == Longest({CommonPrefix(k, c) : c \in DOMAIN t}) IN
         IF meet \in DOMAIN t \/ meet = k
         THEN [kind |-> "One", branch |-> None]
         ELSE [kind |-> "Two", branch |-> Some(meet)]

\* PrepareInsert::insert
InsertNodes(t, k, prepare) ==
    [n \in DOMAIN t \cup {k}
            \cup (IF IsSome(prepare.branch) THEN {Unwrap(prepare.branch)} ELSE {}) |->
        IF n = k THEN DefaultEntry(TRUE)
        ELSE IF n \in DOMAIN t THEN t[n]
        ELSE DefaultEntry(FALSE)]

\* StorageNodeAccess::remove
Remove(t, k) ==
    LET ch == ChildrenOf(t, k)
        p == parent_node(t, k)
    IN
    IF Cardinality(ch) >= 2
    THEN [kind |-> "StorageToBranch",
          structure |-> [t EXCEPT ![k].has_storage_value = FALSE],
          node |-> Some(k)]
    ELSE IF Cardinality(ch) = 1
    THEN [kind |-> "SingleRemoveChild",
          structure |-> Restrict(t, DOMAIN t \ {k}),
          node |-> Some(CHOOSE c \in ch : TRUE)]
    ELSE IF ~IsSome(p)
    THEN [kind |-> "TrieNowEmpty", structure |-> EmptyStructure, node |-> None]
    ELSE IF ~t[Unwrap(p)].has_storage_value
                /\ Cardinality(ChildrenOf(t, Unwrap(p))) = 2
    THEN [kind |-> "BranchAlsoRemoved",
          structure |-> Restrict(t, DOMAIN t \ {k, Unwrap(p)}),
          node |-> Some(CHOOSE c \in ChildrenOf(t, Unwrap(p)) : c # k)]
    ELSE [kind |-> "SingleRemoveNoChild",
          structure |-> Restrict(t, DOMAIN t \ {k}),
          node |-> p]

\* The shortest of a non-empty set of keys.
Shortest(keys) == CHOOSE x \in keys : \A y \in keys : Len(x) <= Len(y)

\* TrieStructure::remove_prefix: every node whose key starts with the prefix
\* is removed, and with them the node above them when it is left without a
\* storage value and with one child; `node` is the node now at the place of
\* the removed nodes (the node above them, or the child that has replaced
\* it), None when nothing was removed or nothing remains.
remove_prefix(t, prefix) ==
    LET removed == {n \in DOMAIN t : IsPrefix(prefix, n)}
        rest == Restrict(t, DOMAIN t \ removed)
    IN
    IF removed = {}
    THEN [structure |-> t, node |-> None]
    ELSE LET ancestor == parent_node(t, Shortest(removed)) IN
         IF ~IsSome(ancestor)
         THEN [structure |-> EmptyStructure, node |-> None]
         ELSE IF t[Unwrap(ancestor)].has_storage_value
                    \/ Cardinality(ChildrenOf(rest, Unwrap(ancestor))) >= 2
         THEN [structure |-> rest, node |-> ancestor]
         ELSE [structure |-> Restrict(rest, DOMAIN rest \ {Unwrap(ancestor)}),
               node |-> Some(CHOOSE c \in ChildrenOf(rest, Unwrap(ancestor)) : TRUE)]


(***************************************************************************)
(* Merkle values (trie_node::calculate_merkle_value).  A Merkle value is   *)
(* the encoding of the node, or its Blake2b-256 hash when the node is the  *)
(* root or the encoding is 32 bytes long or more; the hash is modelled by  *)
(* the encoding it was computed from.                                      *)
(***************************************************************************)

\* Length from which a V1 storage value enters the node by its hash.
HashedValueMinLen == 33

\* The storage values of the model: a short one and a long one.
Values == { [len |-> 1, bytes |-> "short"],
            [len |-> HashedValueMinLen, bytes |-> "long"] }

\* trie_node::StorageValue
StorageValueNone == [kind |-> "None"]
StorageValueUnhashed(value) == [kind |-> "Unhashed", value |-> value]
StorageValueHashed(value) == [kind |-> "Hashed", blake2b |-> value]

StorageValueSize(storage_value) ==
    CASE storage_value.kind = "None" -> 0
      [] storage_value.kind = "Unhashed" -> 1 + storage_value.value.len
      [] storage_value.kind = "Hashed" -> 32

\* Number of bytes of the encoding of a node: header, partial key, children
\* bitmap, storage value, and every child's Merkle value with its length.
RECURSIVE EncodedSize(_), ChildrenSize(_, _)
ChildrenSize(children, indices) ==
    IF indices = {}
    THEN 0
    ELSE LET i == CHOOSE i \in indices : TRUE IN
         1 + (IF children[i].hashed THEN 32 ELSE EncodedSize(children[i].node))
           + ChildrenSize(children, indices \ {i})
EncodedSize(decoded) ==
    1 + ((Len(decoded.partial_key) + 1) \div 2)
      + (IF DOMAIN decoded.children = {} THEN 0 ELSE 2)
      + StorageValueSize(decoded.storage_value)
      + ChildrenSize(decoded.children, DOMAIN decoded.children)

\* trie_node::Decoded
Decoded(nibbles, children, storage_value) ==
    [partial_key |-> nibbles, children |-> children,
     storage_value |-> storage_value]

\* trie_node::calculate_merkle_value
calculate_merkle_value(decoded, is_root) ==
    [hashed |-> is_root \/ EncodedSize(decoded) >= 32, node |-> decoded]

\* The Merkle values of the children of a node, by child index; ok is false
\* when a child has none (the unwrap() of child.merkle_value panics).
children_merkle_values(t, n) ==
    [ok |-> \A c \in ChildrenOf(t, n) : IsSome(t[c].merkle_value),
     values |-> [i \in {ChildIndex(n, c) : c \in ChildrenOf(t, n)} |->
                    LET c == CHOOSE c \in ChildrenOf(t, n) : ChildIndex(n, c) = i
                    IN IF IsSome(t[c].merkle_value)
                       THEN Unwrap(t[c].merkle_value)
                       ELSE None]]

(***************************************************************************)
(* CalculationCache                                                        *)
(***************************************************************************)

Invalidate(t, n) == [t EXCEPT ![n].merkle_value = None]

\* The loop over the ancestors, which stops at the first one whose Merkle
\* value is already absent.
RECURSIVE InvalidateAncestors(_, _)
InvalidateAncestors(t, p) ==
    IF ~IsSome(p) THEN t
    ELSE IF ~IsSome(t[Unwrap(p)].merkle_value) THEN t
    ELSE InvalidateAncestors(Invalidate(t, Unwrap(p)), parent_node(t, Unwrap(p)))

\* node_to_invalidate alone, its ancestors left as they are.
InvalidateOnlyNode(t, n) == Invalidate(t, n)

\* node_to_invalidate and all its ancestors.
InvalidateFrom(t, n) == InvalidateAncestors(Invalidate(t, n), parent_node(t, n))

\* The children of a newly inserted branch node lose their Merkle value.
InvalidateChildren(t, branch) ==
    [n \in DOMAIN t |->
        IF n \in ChildrenOf(t, branch) THEN [t[n] EXCEPT !.merkle_value = None]
        ELSE t[n]]

\* The insertion of the (Vacant, true) arm without any invalidation.
UpdateVacantWithoutInvalidation(t, k) ==
    InsertNodes(t, k, insert_storage_value(t, k))

\* The (Vacant, true) arm of storage_value_update.
UpdateVacant(t, k) ==
    LET prepare == insert_storage_value(t, k)
        inserted == InsertNodes(t, k, prepare)
    IN
    IF prepare.kind = "One"
    THEN IF IsSome(parent_node(inserted, k))
         THEN InvalidateFrom(inserted, Unwrap(parent_node(inserted, k)))
         ELSE inserted
    ELSE LET branch == Unwrap(prepare.branch)
             invalidated == InvalidateChildren(inserted, branch)
         IN IF IsSome(parent_node(invalidated, branch))
            THEN InvalidateFrom(invalidated, Unwrap(parent_node(invalidated, branch)))
            ELSE invalidated

\* The (Occupied(Storage), false) arm of storage_value_update.
UpdateRemoved(t, k) ==
    LET removed == Remove(t, k) IN
    IF removed.kind = "TrieNowEmpty"
    THEN removed.structure
    ELSE InvalidateFrom(removed.structure, Unwrap(removed.node))

\* CalculationCache::storage_value_update
storage_value_update(c, key, has_value) ==
    IF ~IsSome(c.structure)
    THEN c
    ELSE LET t == Unwrap(c.structure)
             k == bytes_to_nibbles(key)
             entry == node(t, k)
         IN [structure |-> Some(
                CASE entry = "Vacant" /\ has_value -> UpdateVacant(t, k)
                  [] entry = "Vacant" /\ ~has_value -> t
                  [] entry = "Branch" /\ has_value ->
                        InvalidateFrom([t EXCEPT ![k].has_storage_value = TRUE], k)
                  [] entry = "Storage" /\ has_value -> InvalidateFrom(t, k)
                  [] entry = "Branch" /\ ~has_value -> t
                  [] entry = "Storage" /\ ~has_value -> UpdateRemoved(t, k))]

\* The node and all its ancestors lose their Merkle value, whether or not
\* an ancestor is already without one.
InvalidateAll(t, n) ==
    [m \in DOMAIN t |->
        IF m = n \/ m \in Ancestors(t, n)
        THEN [t[m] EXCEPT !.merkle_value = None]
        ELSE t[m]]

\* prefix_remove_update that leaves the ancestors as they are.
prefix_remove_update_of_node_only(c, prefix) ==
    IF ~IsSome(c.structure)
    THEN c
    ELSE LET removed == remove_prefix(Unwrap(c.structure), bytes_to_nibbles(prefix))
             t == removed.structure
         IN [structure |-> Some(
                IF IsSome(removed.node)
                THEN Invalidate(t, Unwrap(removed.node))
                ELSE IF IsSome(root_node(t))
                THEN Invalidate(t, Unwrap(root_node(t)))
                ELSE t)]

\* CalculationCache::prefix_remove_update
prefix_remove_update(c, prefix) ==
    IF ~IsSome(c.structure)
    THEN c
    ELSE LET removed == remove_prefix(Unwrap(c.structure), bytes_to_nibbles(prefix))
             t == removed.structure
         IN [structure |-> Some(
                IF IsSome(removed.node)
                THEN InvalidateAll(t, Unwrap(removed.node))
                ELSE IF IsSome(root_node(t))
                THEN Invalidate(t, Unwrap(root_node(t)))
                ELSE t)]

(***************************************************************************)
(* CalcInner                                                               *)
(***************************************************************************)

\* What a call returns: the RootMerkleValueCalculation variant (or "panic")
\* and the fields of the CalcInner it holds.
CalcOut(state, t, cur, from_child, hash_value) ==
    [state |-> state, cache |-> [structure |-> Some(t)], current |-> cur,
     coming_from_child |-> from_child, hash |-> hash_value]

\* The Merkle value of an empty node that is not taken as the root.
EmptyTrieMerkleValueNotRoot ==
    calculate_merkle_value(Decoded(<<>>, <<>>, StorageValueNone), FALSE)

\* The Merkle value of the root of an empty trie.
EmptyTrieMerkleValue ==
    calculate_merkle_value(Decoded(<<>>, <<>>, StorageValueNone), TRUE)

\* The loop of CalcInner::next, from the node `cur`.
RECURSIVE Traverse(_, _, _)
Traverse(t, cur, from_child) ==
    IF IsSome(t[cur].merkle_value)
    THEN IF IsSome(into_next_sibling(t, cur))
         THEN Traverse(t, Unwrap(into_next_sibling(t, cur)), FALSE)
         ELSE IF IsSome(parent_node(t, cur))
         THEN Traverse(t, Unwrap(parent_node(t, cur)), TRUE)
         ELSE CalcOut("Finished", t, None, FALSE,
                      t[Unwrap(root_node(t))].merkle_value)
    ELSE IF ~from_child /\ IsSome(into_first_child(t, cur))
    THEN Traverse(t, Unwrap(into_first_child(t, cur)), FALSE)
    ELSE IF t[cur].has_storage_value
    THEN CalcOut("StorageValue", t, Some(cur), TRUE, None)
    ELSE LET children == children_merkle_values(t, cur) IN
         IF ~children.ok
         THEN CalcOut("panic", t, Some(cur), TRUE, None)
         ELSE Traverse(
                [t EXCEPT ![cur].merkle_value =
                    Some(calculate_merkle_value(
                            Decoded(partial_key(t, cur), children.values,
                                    StorageValueNone),
                            is_root_node(t, cur)))],
                cur, TRUE)

\* CalcInner::next that takes the node it starts from as already left by
\* its children.
next_without_descent(c, cur, from_child) ==
    IF ~IsSome(c.structure)
    THEN [state |-> "AllKeys", cache |-> c, current |-> cur,
          coming_from_child |-> from_child, hash |-> None]
    ELSE LET t == Unwrap(c.structure) IN
         IF IsSome(cur) THEN Traverse(t, Unwrap(cur), TRUE)
         ELSE IF IsSome(root_node(t))
         THEN Traverse(t, Unwrap(root_node(t)), TRUE)
         ELSE CalcOut("Finished", t, None, FALSE, Some(EmptyTrieMerkleValue))

\* CalcInner::next
next(c, cur, from_child) ==
    IF ~IsSome(c.structure)
    THEN [state |-> "AllKeys", cache |-> c, current |-> cur,
          coming_from_child |-> from_child, hash |-> None]
    ELSE LET t == Unwrap(c.structure) IN
         IF IsSome(cur) THEN Traverse(t, Unwrap(cur), from_child)
         ELSE IF IsSome(root_node(t))
         THEN Traverse(t, Unwrap(root_node(t)), from_child)
         ELSE CalcOut("Finished", t, None, FALSE, Some(EmptyTrieMerkleValue))

\* The structure AllKeys::inject builds from the keys, in the order given;
\* ok is false when into_vacant() finds the entry of a key occupied.
RECURSIVE BuildStructure(_, _)
BuildStructure(t, keys) ==
    IF keys = <<>>
    THEN [ok |-> TRUE, structure |-> t]
    ELSE LET k == bytes_to_nibbles(Head(keys)) IN
         IF node(t, k) # "Vacant"
         THEN [ok |-> FALSE, structure |-> t]
         ELSE BuildStructure(InsertNodes(t, k, insert_storage_value(t, k)),
                             Tail(keys))

\* AllKeys::inject
AllKeysInject(keys) ==
    LET built == BuildStructure(EmptyStructure, keys) IN
    IF ~built.ok
    THEN CalcOut("panic", built.structure, None, FALSE, None)
    ELSE next([structure |-> Some(built.structure)], None, FALSE)

\* The storage value of a V1 entry hashed whatever its length.
NodeStorageValueAlwaysHashed(value, version) ==
    IF version = "V1"
    THEN StorageValueHashed(value)
    ELSE StorageValueUnhashed(value)

\* The storage value of a V1 entry hashed from 32 bytes.
NodeStorageValueFrom32(value, version) ==
    IF version = "V1" /\ value.len >= HashedValueMinLen - 1
    THEN StorageValueHashed(value)
    ELSE StorageValueUnhashed(value)

\* The storage value as it enters the node.
NodeStorageValue(value, version) ==
    IF version = "V1" /\ value.len >= HashedValueMinLen
    THEN StorageValueHashed(value)
    ELSE StorageValueUnhashed(value)

\* StorageValue::inject that never takes the node for the root.
StorageValueInjectNotRoot(c, cur, stored_value, version) ==
    LET t == Unwrap(c.structure)
        children == children_merkle_values(t, cur)
    IN
    IF ~IsSome(stored_value) \/ ~children.ok
    THEN CalcOut("panic", t, Some(cur), TRUE, None)
    ELSE next([structure |-> Some(
                [t EXCEPT ![cur].merkle_value =
                    Some(calculate_merkle_value(
                            Decoded(partial_key(t, cur), children.values,
                                    NodeStorageValue(Unwrap(stored_value), version)),
                            FALSE))])],
              Some(cur), TRUE)

\* StorageValue::inject
StorageValueInject(c, cur, stored_value, version) ==
    LET t == Unwrap(c.structure)
        children == children_merkle_values(t, cur)
    IN
    IF ~IsSome(stored_value) \/ ~children.ok
    THEN CalcOut("panic", t, Some(cur), TRUE, None)
    ELSE next([structure |-> Some(
                [t EXCEPT ![cur].merkle_value =
                    Some(calculate_merkle_value(
                            Decoded(partial_key(t, cur), children.values,
                                    NodeStorageValue(Unwrap(stored_value), version)),
                            is_root_node(t, cur)))])],
              Some(cur), TRUE)


(***************************************************************************)
(* The caller of the root calculation: a store, its keys given to AllKeys  *)
(* in any order, its values given to StorageValue, and its changes told to *)
(* the cache it keeps from a finished calculation.                         *)
(***************************************************************************)

\* The keys of the stores of the model: 0x00, 0x0000, 0x0010, 0x10.
KeyInputs == { <<0>>, <<0, 0>>, <<0, 16>>, <<16>> }

\* Lexicographic order of byte strings (the order of BTreeMap keys).
RECURSIVE LexLess(_, _)
LexLess(a, b) ==
    IF b = <<>> THEN FALSE
    ELSE IF a = <<>> THEN TRUE
    ELSE IF a[1] # b[1] THEN a[1] < b[1]
    ELSE LexLess(Tail(a), Tail(b))

\* trie.keys(): the keys of a store in lexicographic order.
RECURSIVE SortedKeys(_)
SortedKeys(keys) ==
    IF keys = {}
    THEN <<>>
    ELSE LET least == CHOOSE k \in keys : \A other \in keys \ {k} : LexLess(k, other)
         IN <<least>> \o SortedKeys(keys \ {least})

\* Every order in which the keys of a store can be enumerated.
KeyOrders(keys) ==
    {order \in [1 .. Cardinality(keys) -> keys] :
        \A i, j \in 1 .. Cardinality(keys) : order[i] = order[j] => i = j}

\* trie.get(key)
StorageGet(trie, key) ==
    IF key \in DOMAIN trie THEN Some(trie[key]) ELSE None

\* The loop that drives a calculation to its end from the value `out` it
\* returned last, keys enumerated in the order of the store.
RECURSIVE Drive(_, _, _, _)
Drive(out, version, trie, log) ==
    CASE out.state = "AllKeys" ->
            Drive(AllKeysInject(SortedKeys(DOMAIN trie)), version, trie,
                  Append(log, <<"AllKeys">>))
      [] out.state = "StorageValue" ->
            LET key == nibbles_to_bytes(Unwrap(out.current)) IN
            Drive(StorageValueInject(out.cache, Unwrap(out.current),
                                     StorageGet(trie, key), version),
                  version, trie, Append(log, <<"StorageValue", key>>))
      [] OTHER -> [state |-> out.state, hash |-> out.hash, cache |-> out.cache,
                   requests |-> log]

\* tests::calculate_root: the root of a store, calculated without a cache.
calculate_root(version, trie) ==
    Drive(next([structure |-> None], None, FALSE), version, trie, <<>>)

\* The variables of the block tree.
verification_vars ==
    <<tree_vars, finalized_vars, inner, pc, context, insert_handle,
      parent_runtime, before, last>>

\* The caller holds what a call returned: the calculation, and the request
\* it makes added to the requests made so far.
Enter(out, log) ==
    /\ calculation' = out.state
    /\ cache' = out.cache
    /\ current' = out.current
    /\ coming_from_child' = out.coming_from_child
    /\ root_hash' = out.hash
    /\ requests' = CASE out.state = "AllKeys" -> Append(log, <<"AllKeys">>)
                     [] out.state = "StorageValue" ->
                            Append(log, <<"StorageValue",
                                          nibbles_to_bytes(Unwrap(out.current))>>)
                     [] OTHER -> log
    /\ UNCHANGED <<storage, entry_version, verification_vars, client_vars>>

\* root_merkle_value that leaves aside the cache it is given.
root_merkle_value_without_cache ==
    /\ calculation \in {"idle", "Finished"}
    /\ \E given \in {"None", "empty", "primed"} :
        /\ given = "primed" => IsSome(cache.structure)
        /\ given_cache' = given
        /\ Enter(next([structure |-> None], None, FALSE), <<>>)

\* root_merkle_value, given no cache, an empty cache, or the cache of the
\* last finished calculation.
root_merkle_value ==
    /\ calculation \in {"idle", "Finished"}
    /\ \E given \in {"None", "empty", "primed"} :
        /\ given = "primed" => IsSome(cache.structure)
        /\ given_cache' = given
        /\ Enter(next(IF given = "primed" THEN cache ELSE [structure |-> None],
                      None, FALSE),
                 <<>>)

\* AllKeys::inject
AllKeys_inject ==
    /\ calculation = "AllKeys"
    /\ \E keys \in KeyOrders(DOMAIN storage) : Enter(AllKeysInject(keys), requests)
    /\ UNCHANGED given_cache

\* StorageValue::inject
StorageValue_inject ==
    /\ calculation = "StorageValue"
    /\ Enter(StorageValueInject(
                cache, Unwrap(current),
                StorageGet(storage, nibbles_to_bytes(Unwrap(current))),
                entry_version),
             requests)
    /\ UNCHANGED given_cache

\* The caller changes the store and tells the cache it holds.
Mutate(trie, c) ==
    /\ calculation \in {"idle", "Finished"}
    /\ storage' = trie
    /\ cache' = c
    /\ calculation' = "idle"
    /\ current' = None
    /\ coming_from_child' = FALSE
    /\ root_hash' = None
    /\ requests' = <<>>
    /\ given_cache' = "None"
    /\ UNCHANGED <<entry_version, verification_vars, client_vars>>

\* A value is inserted at a new key or written over the value of a key,
\* with storage_value_update(key, true).
StorageInsert ==
    \E key \in KeyInputs, value \in Values :
        /\ StorageGet(storage, key) # Some(value)
        /\ Mutate([k \in DOMAIN storage \cup {key} |->
                        IF k = key THEN value ELSE storage[k]],
                  storage_value_update(cache, key, TRUE))

\* The value of a key is removed, with storage_value_update(key, false).
StorageRemove ==
    \E key \in DOMAIN storage :
        Mutate([k \in DOMAIN storage \ {key} |-> storage[k]],
               storage_value_update(cache, key, FALSE))

\* The prefixes whose keys are removed: every key, the keys under 0x00, the
\* key 0x0000, the key 0x10.
PrefixInputs == { <<>>, <<0>>, <<0, 0>>, <<16>> }

\* The keys of a store that start with the prefix.
KeysWithPrefix(trie, prefix) ==
    {key \in DOMAIN trie :
        /\ Len(prefix) <= Len(key)
        /\ SubSeq(key, 1, Len(prefix)) = prefix}

\* The store without the keys that start with the prefix.
WithoutPrefix(trie, prefix) ==
    [k \in DOMAIN trie \ KeysWithPrefix(trie, prefix) |-> trie[k]]

\* Every key that starts with a prefix is removed, with
\* prefix_remove_update(prefix).
StoragePrefixRemove ==
    \E prefix \in PrefixInputs :
        Mutate(WithoutPrefix(storage, prefix),
               prefix_remove_update(cache, prefix))

\* The block tree as it is built, with no verification in flight.
NoVerification ==
    /\ blocks = <<>>
    /\ blocks_by_hash = <<>>
    /\ current_best = None
    /\ finalized_block_header = GenesisHeader
    /\ finalized_block_hash = hash(GenesisHeader)
    /\ finalized_consensus = [tag |-> "Unknown"]
    /\ finality = FinalityOutsourced
    /\ allow_unknown_consensus_engines = FALSE
    /\ inner = "tree"
    /\ pc = "idle"
    /\ context = NoContext
    /\ insert_handle = NoHandle
    /\ parent_runtime = "caller"
    /\ before = [blocks |-> <<>>, blocks_by_hash |-> <<>>, current_best |-> None]
    /\ last = Returned("new", "Ok")

InitTrie ==
    /\ NoVerification
    /\ entry_version \in {"V0", "V1"}
    /\ NoCalculation
    /\ NoClient

NextTrie ==
    \/ root_merkle_value
    \/ AllKeys_inject
    \/ StorageValue_inject
    \/ StorageInsert
    \/ StorageRemove
    \/ StoragePrefixRemove

SpecTrie == InitTrie /\ [][NextTrie]_vars

\* The longest storage value of the stores of one entry.
MaxValueLen == 34

\* The calculations over a store of one entry, whose value has any length
\* up to MaxValueLen and either version.
InitValue ==
    /\ NoVerification
    /\ entry_version \in {"V0", "V1"}
    /\ \E len \in 0 .. MaxValueLen :
            storage = [key \in { <<0>> } |-> [len |-> len, bytes |-> "value"]]
    /\ cache = [structure |-> None]
    /\ calculation = "idle"
    /\ current = None
    /\ coming_from_child = FALSE
    /\ root_hash = None
    /\ requests = <<>>
    /\ given_cache = "None"
    /\ NoClient

NextValue ==
    \/ root_merkle_value
    \/ AllKeys_inject
    \/ StorageValue_inject

SpecValue == InitValue /\ [][NextValue]_vars


(***************************************************************************)
(* Properties of the root calculation.                                     *)
(***************************************************************************)

\* The root of the store as a calculation without a cache gives it.
FreshRoot == calculate_root(entry_version, storage)

\* C17: whenever a calculation that was given the cache of an earlier
\* calculation, kept up to date through storage_value_update across
\* insertions, modifications and removals, finishes, its root is the root
\* that a calculation without a cache gives for the same store.
C17_CacheEquivalence ==
    (calculation = "Finished" /\ given_cache = "primed")
        => root_hash = FreshRoot.hash


\* The hash of the encoding of the node without partial key, children or
\* storage value, which is the single byte 0x00.
Blake2b256OfZeroByte ==
    [hashed |-> TRUE,
     node |-> [partial_key |-> <<>>, children |-> <<>>,
               storage_value |-> [kind |-> "None"]]]

\* C18: a calculation over a store without keys, of either entry version,
\* given no cache, an empty cache or the cache of an earlier calculation all
\* of whose keys were removed through storage_value_update, finishes with
\* the hash of the byte 0x00 and has made no StorageValue request.
C18_EmptyTrieRoot ==
    (calculation = "Finished" /\ DOMAIN storage = {})
        => /\ root_hash = Some(Blake2b256OfZeroByte)
           /\ \A i \in DOMAIN requests : requests[i][1] # "StorageValue"

\* A calculation finished over the empty store with a cache whose structure
\* was built for a store that had keys.
C18_Witness ==
    /\ calculation = "Finished"
    /\ DOMAIN storage = {}
    /\ given_cache = "primed"
    /\ entry_version = "V0"
    /\ requests = <<>>


\* The positions of the requests of one kind among the requests made.
RequestsOf(kind) == {i \in DOMAIN requests : requests[i][1] = kind}

\* C19: a calculation driven by answering its requests never stops short
\* of Finished: AllKeys is requested at most once, first, and only when the
\* cache given holds no structure; StorageValue is requested at most once
\* per key, and only for keys that have a value; the requests are thus
\* bounded by the store, and Finished carries a hash.
C19_Terminates ==
    /\ calculation # "panic"
    /\ RequestsOf("AllKeys") \subseteq {1}
    /\ RequestsOf("AllKeys") # {} => given_cache # "primed"
    /\ \A i \in RequestsOf("StorageValue") : requests[i][2] \in DOMAIN storage
    /\ \A i, j \in RequestsOf("StorageValue") :
            requests[i][2] = requests[j][2] => i = j
    /\ calculation = "Finished" => IsSome(root_hash) /\ Unwrap(root_hash).hashed

\* C20: a calculation started without a cache makes the requests, in the
\* same order, and finishes with the root, of any other calculation
\* started without a cache over the same store, in whatever order the keys
\* are given to AllKeys::inject.
C20_Deterministic ==
    given_cache = "None" /\ calculation # "idle"
        => /\ calculation # "panic"
           /\ Len(requests) <= Len(FreshRoot.requests)
           /\ requests = SubSeq(FreshRoot.requests, 1, Len(requests))
           /\ calculation = "Finished"
                => root_hash = FreshRoot.hash /\ requests = FreshRoot.requests


\* The other version of the entries of a store.
OtherVersion(version) == IF version = "V0" THEN "V1" ELSE "V0"

\* Every value of the store is shorter than 33 bytes.
ShortValues == \A key \in DOMAIN storage : storage[key].len < 33

\* C21: over a store all of whose values are shorter than 33 bytes, the
\* root a calculation of the store (one that was not given the cache of an
\* earlier calculation) finishes with when every entry has one version is
\* the root calculated when every entry has the other version.
C21_VersionAgnostic ==
    (calculation = "Finished" /\ given_cache # "primed" /\ ShortValues)
        => root_hash = calculate_root(OtherVersion(entry_version), storage).hash

\* A calculation over a store of several short values finished with V1
\* entries.
C21_Witness ==
    /\ calculation = "Finished"
    /\ ShortValues
    /\ Cardinality(DOMAIN storage) >= 3
    /\ entry_version = "V1"
    /\ given_cache = "None"


\* The structure of the cache, empty when the cache holds none.
StructureOf(c) == IF IsSome(c.structure) THEN Unwrap(c.structure) ELSE EmptyStructure

\* The nodes whose Merkle value is calculated by the step.
NewlyCalculated ==
    {n \in DOMAIN StructureOf(cache') :
        /\ IsSome(StructureOf(cache')[n].merkle_value)
        /\ ~(n \in DOMAIN StructureOf(cache)
                /\ IsSome(StructureOf(cache)[n].merkle_value))}

\* A Merkle value is a hash exactly when it is calculated for the root
\* node or from an encoding of 32 bytes or more.
CalculatedAsEncodingOrHash ==
    \A n \in NewlyCalculated :
        LET merkle_value == Unwrap(StructureOf(cache')[n].merkle_value) IN
        /\ merkle_value.node.partial_key = partial_key(StructureOf(cache'), n)
        /\ merkle_value.hashed =
                (is_root_node(StructureOf(cache'), n)
                    \/ EncodedSize(merkle_value.node) >= 32)

\* The root reported is the hash of the encoding of the root node; over a
\* store of one entry that node is a leaf with the nibbles of the key as
\* partial key and the value of the entry as storage value.
RootHashIsHashOfRootNode ==
    calculation = "Finished" =>
        /\ IsSome(root_hash)
        /\ Unwrap(root_hash).hashed
        /\ IsSome(root_node(StructureOf(cache))) =>
                root_hash = StructureOf(cache)[Unwrap(root_node(StructureOf(cache)))].merkle_value
        /\ \A key \in DOMAIN storage :
                DOMAIN storage = {key} =>
                    /\ Unwrap(root_hash).node.partial_key = bytes_to_nibbles(key)
                    /\ Unwrap(root_hash).node.children = <<>>
                    /\ Unwrap(root_hash).node.storage_value =
                            IF entry_version = "V1" /\ storage[key].len >= 33
                            THEN [kind |-> "Hashed", blake2b |-> storage[key]]
                            ELSE [kind |-> "Unhashed", value |-> storage[key]]

\* C22: the root hash reported is always the hash of the encoding of the
\* root node, also when the encoding is shorter than 32 bytes, while the
\* Merkle value calculated for a node that is not the root is its encoding
\* when shorter than 32 bytes; over a store of one entry the root node is a
\* leaf whose partial key is the nibbles of the key and whose storage value
\* is the value injected.
C22_RootAlwaysHashed ==
    []RootHashIsHashOfRootNode /\ [][CalculatedAsEncodingOrHash]_vars

\* A calculation finished with a root node whose encoding is shorter than
\* 32 bytes, above a node whose Merkle value is its encoding.
C22_Witness ==
    /\ calculation = "Finished"
    /\ EncodedSize(Unwrap(root_hash).node) < 32
    /\ \E n \in DOMAIN StructureOf(cache) :
            /\ ~is_root_node(StructureOf(cache), n)
            /\ ~Unwrap(StructureOf(cache)[n].merkle_value).hashed


(***************************************************************************)
(* Properties of the consensus and finality of the inserted blocks.        *)
(***************************************************************************)

\* The step inserts the verified block in the tree.
InsertStep ==
    /\ pc \in InsertHandles
    /\ pc' = "idle"
    /\ Len(blocks') = Len(blocks) + 1

\* The block the step inserts.
InsertedBlock == blocks'[Len(blocks')]

\* What the verifier reported for the block being inserted.
Reported == insert_handle.success

\* The parent of the block being inserted is the finalized block.
ParentIsFinalized == ~IsSome(context.parent_tree_index)

\* The node of the parent of the block being inserted.
ParentBlock == blocks[Unwrap(context.parent_tree_index)]

EpochFields ==
    {"epoch_index", "authorities", "randomness", "c", "allowed_slots"}

\* C23: a Babe block for which the verifier reported an epoch transition
\* target is inserted with, as current epoch, the next epoch of its parent
\* (next_epoch_transition of the finalized descriptor when the parent is
\* the finalized block), every field kept but start_slot_number, which is
\* the slot of the block if and only if it was absent; its next epoch is
\* the target reported.
C23_BabeEpochTransition ==
    [][ (InsertStep /\ Reported.tag = "Babe"
            /\ IsSome(Reported.epoch_transition_target))
        => LET parent_next == IF ParentIsFinalized
                              THEN finalized_consensus.next_epoch_transition
                              ELSE ParentBlock.consensus.next_epoch
               inserted == InsertedBlock.consensus
           IN /\ inserted.tag = "Babe"
              /\ IsSome(inserted.current_epoch)
              /\ \A field \in EpochFields :
                    Unwrap(inserted.current_epoch)[field] = parent_next[field]
              /\ Unwrap(inserted.current_epoch).start_slot_number =
                    IF IsSome(parent_next.start_slot_number)
                    THEN parent_next.start_slot_number
                    ELSE Some(Reported.slot_number)
              /\ inserted.next_epoch = Unwrap(Reported.epoch_transition_target)
      ]_vars

\* A block with an epoch transition on top of a block with an epoch
\* transition on top of the finalized block: the first epoch got its start
\* slot from the block, the second kept its own.
C23_Witness ==
    \E i, j \in DOMAIN blocks :
        /\ blocks[i].parent = Some(j)
        /\ blocks[j].parent = None
        /\ blocks[j].consensus.tag = "Babe"
        /\ IsSome(blocks[j].consensus.current_epoch)
        /\ Unwrap(blocks[j].consensus.current_epoch).start_slot_number
                \in {Some(slot) : slot \in SlotNumbers}
        /\ blocks[i].consensus.current_epoch = Some(blocks[j].consensus.next_epoch)
        /\ IsSome(blocks[j].consensus.next_epoch.start_slot_number)

\* C24: a Babe block for which the verifier reported no epoch transition
\* target is inserted with the current and next epochs of its parent node,
\* and with block_epoch_information and next_epoch_transition of the
\* finalized descriptor when its parent is the finalized block.
C24_BabeNoTransition ==
    [][ (InsertStep /\ Reported.tag = "Babe"
            /\ ~IsSome(Reported.epoch_transition_target))
        => /\ InsertedBlock.consensus.tag = "Babe"
           /\ InsertedBlock.consensus.current_epoch =
                IF ParentIsFinalized
                THEN finalized_consensus.block_epoch_information
                ELSE ParentBlock.consensus.current_epoch
           /\ InsertedBlock.consensus.next_epoch =
                IF ParentIsFinalized
                THEN finalized_consensus.next_epoch_transition
                ELSE ParentBlock.consensus.next_epoch
      ]_vars

\* A block without transition on the finalized block, and a block without
\* transition on a block that had one.
C24_Witness ==
    /\ \E i \in DOMAIN blocks :
            /\ blocks[i].parent = None
            /\ blocks[i].consensus.tag = "Babe"
            /\ blocks[i].consensus.current_epoch
                    = finalized_consensus.block_epoch_information
            /\ blocks[i].consensus.next_epoch
                    = finalized_consensus.next_epoch_transition
    /\ \E j, k \in DOMAIN blocks :
            /\ blocks[k].parent = Some(j)
            /\ blocks[j].consensus.tag = "Babe"
            /\ IsSome(blocks[j].consensus.current_epoch)
            /\ blocks[k].consensus = blocks[j].consensus


\* The authorities of the parent of the block the handle is for.
ParentAuthoritiesList ==
    IF ParentIsFinalized
    THEN finalized_consensus.authorities_list
    ELSE ParentBlock.consensus.authorities_list

\* C25: a verification of an Aura block that succeeds holds an insert
\* handle whose authorities_list is the list of the parent (of the
\* finalized descriptor when the parent is the finalized block), and a
\* verification for which the verifier reports authorities_change still
\* ends with an insert handle.
C25_AuraAuthorities ==
    /\ (pc \in InsertHandles /\ Reported.tag = "Aura"
            /\ ~Reported.authorities_change)
        => Unwrap(insert_handle.consensus) = ConsensusAura(ParentAuthoritiesList)
    /\ ~(pc = "panic" /\ last.out = "todo")


\* The finality of the parent of the block being inserted.
ParentFinality ==
    IF ParentIsFinalized THEN FinalizedBlockFinality ELSE ParentBlock.finality

\* The positions of the scheduled changes in the digest of a header.
ScheduledChangesOf(header) ==
    {i \in DOMAIN header.digest : header.digest[i].kind = "ScheduledChange"}

\* The scheduled change pending once the digest of the header is processed:
\* the one of the parent if it has one, else the first one of the digest.
PendingAfterDigest(parent_finality, header) ==
    IF IsSome(parent_finality.scheduled_change)
    THEN parent_finality.scheduled_change
    ELSE IF ScheduledChangesOf(header) = {}
    THEN None
    ELSE LET first == CHOOSE i \in ScheduledChangesOf(header) :
                        \A j \in ScheduledChangesOf(header) : i <= j
         IN Some([trigger_height |-> header.number + header.digest[first].delay,
                  authorities |-> header.digest[first].next_authorities])

\* C26: of the scheduled changes of the digest of a verified header, taken
\* in order, one is ignored when a change is already pending, from the
\* parent or from an earlier log of the digest; otherwise the pending change
\* becomes (number + delay, next_authorities).  The pending change stays on
\* the inserted block unless the block triggers it, and no block is inserted
\* whose number plus a delay overflows.
C26_FirstScheduleWins ==
    [][ (InsertStep /\ ParentFinality.tag = "Grandpa")
        => LET pending == PendingAfterDigest(ParentFinality, context.header) IN
           /\ \A i \in ScheduledChangesOf(context.header) :
                context.header.number + context.header.digest[i].delay <= MaxNumber
           /\ InsertedBlock.finality.scheduled_change =
                IF IsSome(pending)
                        /\ Unwrap(pending).trigger_height = context.header.number
                THEN None
                ELSE pending
           /\ (IsSome(pending)
                    /\ Unwrap(pending).trigger_height = context.header.number)
                => InsertedBlock.finality.triggered_authorities
                        = Unwrap(pending).authorities
      ]_vars

\* A block whose digest schedules two changes and which keeps the first,
\* and a block whose digest schedules a change while the change of the
\* finalized block is pending, and which keeps the pending one.
C26_Witness ==
    /\ \E i \in DOMAIN blocks :
            /\ Cardinality(ScheduledChangesOf(blocks[i].header)) = 2
            /\ blocks[i].finality.scheduled_change
                    = Some(Scheduled(blocks[i].header.number + 1, 1))
    /\ \E i \in DOMAIN blocks :
            /\ ScheduledChangesOf(blocks[i].header) # {}
            /\ blocks[i].parent = None
            /\ IsSome(finality.finalized_scheduled_change)
            /\ blocks[i].finality.scheduled_change
                    = finality.finalized_scheduled_change


\* The finality of the parent of a node of the tree.
ParentFinalityOf(i) ==
    IF IsSome(blocks[i].parent)
    THEN blocks[Unwrap(blocks[i].parent)].finality
    ELSE FinalizedBlockFinality

\* Number of blocks that trigger a change on the path from the finalized
\* block to the node i, the node included.
RECURSIVE TriggersOnPath(_)
TriggersOnPath(i) ==
    (IF blocks[i].finality.triggers_change THEN 1 ELSE 0)
        + (IF IsSome(blocks[i].parent)
           THEN TriggersOnPath(Unwrap(blocks[i].parent))
           ELSE 0)

\* The block being inserted triggers the change pending after its digest.
TriggersPending(pending) ==
    IsSome(pending) /\ Unwrap(pending).trigger_height = context.header.number

\* The fields of the inserted block that depend on the trigger.
TriggerApplied ==
    LET pending == PendingAfterDigest(ParentFinality, context.header)
        inserted == InsertedBlock.finality
    IN /\ inserted.triggers_change = TriggersPending(pending)
       /\ inserted.triggered_authorities =
            IF TriggersPending(pending)
            THEN Unwrap(pending).authorities
            ELSE ParentFinality.triggered_authorities
       /\ TriggersPending(pending) => inserted.scheduled_change = None
       /\ inserted.after_block_authorities_set_id =
            ParentFinality.after_block_authorities_set_id
                + (IF inserted.triggers_change THEN 1 ELSE 0)

\* The set id of every node is the set id of the finalized block plus the
\* number of triggering blocks on its path, and is not below its parent's.
SetIdCountsTriggers ==
    \A i \in DOMAIN blocks :
        blocks[i].finality.tag = "Grandpa" =>
            /\ blocks[i].finality.after_block_authorities_set_id =
                    finality.after_finalized_block_authorities_set_id
                        + TriggersOnPath(i)
            /\ blocks[i].finality.after_block_authorities_set_id
                    >= ParentFinalityOf(i).after_block_authorities_set_id

\* C27: once the digest is processed, a block whose pending scheduled
\* change has its own number as trigger height is inserted with
\* triggers_change, the scheduled authorities as triggered_authorities and
\* no scheduled change; any other block has triggers_change false and the
\* triggered_authorities of its parent.  after_block_authorities_set_id is
\* the parent's plus one if and only if the block triggers a change: along
\* a path of the tree it never decreases and grows by the number of
\* triggering blocks.
C27_GrandpaTrigger ==
    /\ []SetIdCountsTriggers
    /\ [][ (InsertStep /\ ParentFinality.tag = "Grandpa") => TriggerApplied ]_vars

\* A second triggering block in a row, and a block that does not trigger on
\* top of one that does.
C27_Witness ==
    /\ \E i \in DOMAIN blocks :
            /\ blocks[i].finality.tag = "Grandpa"
            /\ blocks[i].finality.triggers_change
            /\ blocks[i].finality.after_block_authorities_set_id = 2
    /\ \E i \in DOMAIN blocks :
            /\ blocks[i].finality.tag = "Grandpa"
            /\ ~blocks[i].finality.triggers_change
            /\ ParentFinalityOf(i).triggers_change
            /\ blocks[i].finality.after_block_authorities_set_id = 1

\* C28: prev_auth_change_trigger_number of a block of the tree is its
\* number minus one when its parent triggers a change, and the value of its
\* parent otherwise (none for the finalized block); when present it is
\* strictly less than the number of the block.
C28_PrevAuthChangeTrigger ==
    \A i \in DOMAIN blocks :
        blocks[i].finality.tag = "Grandpa" =>
            /\ blocks[i].finality.prev_auth_change_trigger_number =
                    IF ParentFinalityOf(i).triggers_change
                    THEN Some(blocks[i].header.number - 1)
                    ELSE ParentFinalityOf(i).prev_auth_change_trigger_number
            /\ IsSome(blocks[i].finality.prev_auth_change_trigger_number)
                => Unwrap(blocks[i].finality.prev_auth_change_trigger_number)
                        < blocks[i].header.number
            /\ ~IsSome(blocks[i].parent) =>
                    ~IsSome(blocks[i].finality.prev_auth_change_trigger_number)

\* A block that has the number of a triggering grandparent, inherited from
\* its parent, which does not trigger.
C28_Witness ==
    \E i, j \in DOMAIN blocks :
        /\ blocks[i].parent = Some(j)
        /\ blocks[j].finality.tag = "Grandpa"
        /\ ~blocks[j].finality.triggers_change
        /\ IsSome(blocks[j].finality.prev_auth_change_trigger_number)
        /\ blocks[i].finality.prev_auth_change_trigger_number
                = Some(blocks[i].header.number - 2)


(***************************************************************************)
(* Accessors of the suspensions of the body path.                          *)
(***************************************************************************)

\* The suspensions that give access to the ancestors of the block.
AncestorAccess ==
    {"ParentRuntimeRequired", "StorageGet", "StoragePrefixKeys",
     "StorageNextKey"}

\* fork_tree::ForkTree::node_to_root_path: the node, its parent, and so on
\* up to a root of the tree.
RECURSIVE node_to_root_path(_, _)
node_to_root_path(tree, node_index) ==
    <<node_index>> \o (IF IsSome(tree[node_index].parent)
                       THEN node_to_root_path(tree, Unwrap(tree[node_index].parent))
                       ELSE <<>>)

\* Iterator::nth
Nth(path, n) == IF n + 1 <= Len(path) THEN Some(path[n + 1]) ELSE None

\* BodyVerifyRuntimeRequired::parent_block
parent_block(tree, ctx) == ctx.parent_tree_index

\* nth_ancestor counting from the parent of the parent.
nth_ancestor_skipping_parent(tree, ctx, n) ==
    IF ~IsSome(ctx.parent_tree_index)
    THEN None
    ELSE Nth(node_to_root_path(tree, Unwrap(ctx.parent_tree_index)), n + 1)

\* nth_ancestor of BodyVerifyRuntimeRequired, StorageGet, StoragePrefixKeys
\* and StorageNextKey.
nth_ancestor(tree, ctx, n) ==
    IF ~IsSome(ctx.parent_tree_index)
    THEN None
    ELSE Nth(node_to_root_path(tree, Unwrap(ctx.parent_tree_index)), n)

\* num_non_finalized_ancestors
num_non_finalized_ancestors(tree, ctx) ==
    IF ~IsSome(ctx.parent_tree_index)
    THEN 0
    ELSE Len(node_to_root_path(tree, Unwrap(ctx.parent_tree_index)))

\* The values of n the accessors are asked for.
AncestorInputs == 0 .. MaxBlocks

\* The answers of the accessors, told from the parent hashes of the
\* headers: the answer for 0 has the parent hash of the block as hash, and
\* the answer for n + 1 has as hash the parent hash of the answer for n.
AncestorAnswers ==
    /\ (num_non_finalized_ancestors(blocks, context) = 0)
            = (context.header.parent_hash = finalized_block_hash)
    /\ (~IsSome(parent_block(blocks, context)))
            = (context.header.parent_hash = finalized_block_hash)
    /\ IsSome(parent_block(blocks, context)) =>
            /\ nth_ancestor(blocks, context, 0) = parent_block(blocks, context)
            /\ blocks[Unwrap(nth_ancestor(blocks, context, 0))].hash
                    = context.header.parent_hash
    /\ \A n \in AncestorInputs :
            /\ IsSome(nth_ancestor(blocks, context, n))
                    = (n < num_non_finalized_ancestors(blocks, context))
            /\ IsSome(nth_ancestor(blocks, context, n)) =>
                LET ancestor == blocks[Unwrap(nth_ancestor(blocks, context, n))] IN
                IF IsSome(nth_ancestor(blocks, context, n + 1))
                THEN blocks[Unwrap(nth_ancestor(blocks, context, n + 1))].hash
                        = ancestor.header.parent_hash
                ELSE ancestor.header.parent_hash = finalized_block_hash

\* The answers of the accessors are the same before and after the step.
AncestorAnswersKept ==
    /\ num_non_finalized_ancestors(blocks', context')
            = num_non_finalized_ancestors(blocks, context)
    /\ \A n \in AncestorInputs :
            /\ nth_ancestor(blocks', context', n) = nth_ancestor(blocks, context, n)
            /\ IsSome(nth_ancestor(blocks, context, n)) =>
                    blocks'[Unwrap(nth_ancestor(blocks, context, n))]
                        = blocks[Unwrap(nth_ancestor(blocks, context, n))]

\* C29: at a suspension of the body path nth_ancestor(0) is the parent of
\* the block, nth_ancestor(n + 1) the parent of nth_ancestor(n), and
\* nth_ancestor(n) is a block if and only if n is less than
\* num_non_finalized_ancestors(), which is 0, with parent_block() none,
\* exactly when the parent is the finalized block; a step from one
\* suspension of a verification to the next leaves these answers as they
\* are.
C29_NthAncestor ==
    /\ [](pc \in AncestorAccess => AncestorAnswers)
    /\ [][ (pc \in AncestorAccess /\ pc' \in AncestorAccess)
                => AncestorAnswersKept ]_vars

\* A verification suspended on a storage request for a block whose parent
\* and grandparent are in the tree.
C29_Witness ==
    /\ pc = "StorageGet"
    /\ num_non_finalized_ancestors(blocks, context) = 2
    /\ IsSome(nth_ancestor(blocks, context, 1))
    /\ ~IsSome(nth_ancestor(blocks, context, 2))


\* What the handle holds is what a verification of the same header, with
\* the same report of the verifier, derives from the tree as it is now.
HandleStillValid ==
    /\ TreeValue = before
    /\ hash(context.header) \notin DOMAIN blocks_by_hash
    /\ insert_handle.hash = hash(context.header)
    /\ ParentTreeIndex(context.header).found
    /\ context.parent_tree_index = ParentTreeIndex(context.header).index
    /\ insert_handle.ordering \in Orderings(context)
    /\ insert_handle.is_new_best =
            (IF IsSome(current_best)
             THEN insert_handle.ordering = "Greater" ELSE TRUE)
    /\ insert_handle.consensus
            = Some(DerivedConsensus(context, insert_handle.success).value)
    /\ insert_handle.finality = Some(DerivedFinality(context).value)

\* While an insert handle exists the tree is with the handle, and no
\* verification can be started.
TreeHeldByHandle ==
    /\ inner = "context"
    /\ ~ENABLED verify_header
    /\ ~ENABLED verify_body

\* The step inserts the block of the handle, or leaves the tree as it is.
OnlyInsertOfHandle ==
    \/ UNCHANGED tree_vars
    \/ /\ Len(blocks') = Len(blocks) + 1
       /\ SubSeq(blocks', 1, Len(blocks)) = blocks
       /\ blocks'[Len(blocks')].hash = insert_handle.hash
       /\ blocks'[Len(blocks')].parent = context.parent_tree_index

\* C30: between a verification that succeeds and its insert no other
\* verification or insertion acts on the tree, held by the exclusive borrow
\* of the header path or owned by the handle of the body path: is_new_best,
\* the parent index, the consensus and the finality of the handle are those
\* derived from the tree as it is when the block is inserted.
C30_VerifyThenInsert ==
    /\ [](pc \in InsertHandles => TreeHeldByHandle /\ HandleStillValid)
    /\ [][ (pc \in InsertHandles) => OnlyInsertOfHandle ]_vars

\* An insert handle for a new best block on top of a block of the tree.
C30_Witness ==
    /\ pc \in InsertHandles
    /\ IsSome(context.parent_tree_index)
    /\ IsSome(current_best)
    /\ insert_handle.is_new_best



(***************************************************************************)
(* Properties of the cache and of the order of the traversal.              *)
(***************************************************************************)

\* The keys whose value the step changes.
UpdatedKeys ==
    {key \in KeyInputs : StorageGet(storage', key) # StorageGet(storage, key)}

\* The key whose value the step changes.
UpdatedKey == CHOOSE key \in UpdatedKeys : TRUE

\* The caller changes the value of one key of the store and tells a cache
\* that holds a structure, with storage_value_update.
UpdateStep ==
    /\ IsSome(cache.structure)
    /\ Cardinality(UpdatedKeys) = 1
    /\ cache' = storage_value_update(cache, UpdatedKey,
                                     UpdatedKey \in DOMAIN storage')

\* The nodes of a structure and whether each has a storage value.
Skeleton(t) == [n \in DOMAIN t |-> t[n].has_storage_value]

\* The skeleton of the trie of a store: a node with a storage value for each
\* key, and a node without one wherever two keys or more part.
SkeletonOfStore(trie) ==
    LET keys == {bytes_to_nibbles(key) : key \in DOMAIN trie}
        forks == {CommonPrefix(a, b) : a, b \in keys}
    IN [n \in keys \cup forks |-> n \in keys]

\* The node and each of its ancestors are without a Merkle value.
AbsentUpToRoot(t, n) ==
    \A a \in Ancestors(t, n) \cup {n} : ~IsSome(t[a].merkle_value)

\* After the update the node of the key (of its place, when the key was
\* removed) and every node above it are without a Merkle value, and so is
\* every node that hangs below another node than before.
UpdateInvalidates ==
    LET before_update == StructureOf(cache)
        after_update == StructureOf(cache')
        k == bytes_to_nibbles(UpdatedKey)
    IN
    /\ Skeleton(after_update) = SkeletonOfStore(storage')
    /\ \A n \in DOMAIN after_update :
            IsPrefix(n, k) => ~IsSome(after_update[n].merkle_value)
    /\ UpdatedKey \in DOMAIN storage' => k \in DOMAIN after_update
    /\ \A n \in DOMAIN after_update :
            \* the children of a branch node the insertion has introduced
            (/\ IsSome(parent_node(after_update, n))
             /\ Unwrap(parent_node(after_update, n)) \notin DOMAIN before_update
             /\ Unwrap(parent_node(after_update, n)) # k)
                => AbsentUpToRoot(after_update, n)
    /\ \A n \in DOMAIN after_update \cap DOMAIN before_update :
            \* the node left below the place of a removed node
            (/\ IsSome(parent_node(before_update, n))
             /\ Unwrap(parent_node(before_update, n)) \notin DOMAIN after_update)
                => AbsentUpToRoot(after_update, n)

\* C31: storage_value_update(key, has_value) on a cache that holds a
\* structure leaves the skeleton of the store as changed (leaf inserted or
\* removed, branch introduced or collapsed) and leaves without a Merkle
\* value the node affected and every ancestor of it up to and including the
\* root, and the children of a branch node that the insertion introduces.
C31_UpdateInvalidates == [][UpdateStep => UpdateInvalidates]_vars

\* A cache told of an insertion that introduced a branch node between two
\* nodes which a calculation had given their Merkle values, with a third
\* node still carrying its own.
C31_Witness ==
    /\ calculation = "idle"
    /\ \E b \in DOMAIN StructureOf(cache) :
        /\ ~StructureOf(cache)[b].has_storage_value
        /\ ~is_root_node(StructureOf(cache), b)
        /\ \A n \in ChildrenOf(StructureOf(cache), b) :
                ~IsSome(StructureOf(cache)[n].merkle_value)
    /\ \E n \in DOMAIN StructureOf(cache) : IsSome(StructureOf(cache)[n].merkle_value)


\* The caller removes the keys that start with the prefix and tells a cache
\* that holds a structure, with prefix_remove_update.
PrefixRemoveStep(prefix) ==
    /\ IsSome(cache.structure)
    /\ calculation' = "idle"
    /\ storage' = WithoutPrefix(storage, prefix)
    /\ cache' = prefix_remove_update(cache, prefix)

\* Every Merkle value the cache holds is the one that a calculation without
\* a cache gives the node, and no node without a Merkle value is below a
\* node that has one.
SoundCache(c, version, trie) ==
    LET t == StructureOf(c)
        fresh == StructureOf(calculate_root(version, trie).cache)
    IN
    /\ DOMAIN t = DOMAIN fresh
    /\ \A n \in DOMAIN t :
        /\ IsSome(t[n].merkle_value) => t[n].merkle_value = fresh[n].merkle_value
        /\ ~IsSome(t[n].merkle_value) => AbsentUpToRoot(t, n)

\* The root a calculation given the cache finishes with over the store.
RootWithCache(c, version, trie) ==
    Drive(next(c, None, FALSE), version, trie, <<>>).hash

\* After the removal no node is left under the prefix, every node left above
\* the place of the removed nodes is without a Merkle value, and a
\* calculation given the cache finishes with the root of the store.
PrefixRemoved(prefix) ==
    LET after_update == StructureOf(cache')
        p == bytes_to_nibbles(prefix)
    IN
    /\ \A n \in DOMAIN after_update : ~IsPrefix(p, n)
    /\ Skeleton(after_update) = SkeletonOfStore(storage')
    /\ KeysWithPrefix(storage, prefix) # {} =>
            \A n \in DOMAIN after_update :
                IsPrefix(n, p) => ~IsSome(after_update[n].merkle_value)
    /\ SoundCache(cache, entry_version, storage) =>
            /\ SoundCache(cache', entry_version, storage')
            /\ RootWithCache(cache', entry_version, storage')
                    = calculate_root(entry_version, storage').hash

NoPanicAtNode == ~(calculation = "panic" /\ IsSome(current))

\* Every child of a node whose Merkle value the step calculates carries a
\* Merkle value.
ChildrenCarryMerkleValues ==
    \A n \in NewlyCalculated :
        \A child \in ChildrenOf(StructureOf(cache'), n) :
            IsSome(StructureOf(cache')[child].merkle_value)

\* No StorageValue request follows the request of a key that it extends.
RequestedAfterLongerKeys ==
    \A i, j \in RequestsOf("StorageValue") :
        (i < j /\ requests[i][2] # requests[j][2])
            => ~IsPrefix(requests[i][2], requests[j][2])

\* C33: whenever the Merkle value of a node is calculated, in CalcInner::next
\* for a node without storage value or in StorageValue::inject, every child
\* of the node carries a Merkle value, whatever calculations and updates
\* the cache has gone through; so the request for the value of a key comes
\* after the requests for the keys that extend it.
C33_ChildrenFirst ==
    /\ [](NoPanicAtNode /\ RequestedAfterLongerKeys)
    /\ [][ChildrenCarryMerkleValues]_vars

\* A calculation given the cache of an earlier one asks for the value of a
\* key that has keys under it, after it was given the value of one of them.
C33_Witness ==
    /\ calculation = "StorageValue"
    /\ given_cache = "primed"
    /\ ChildrenOf(StructureOf(cache), Unwrap(current)) # {}
    /\ \E i \in RequestsOf("StorageValue") :
            /\ i < Len(requests)
            /\ IsPrefix(requests[Len(requests)][2], requests[i][2])


\* The storage value in the encoding of a node is the hash of the value of
\* the key when the entry has version V1 and the value 33 bytes or more,
\* and the value itself otherwise.
HashedFromThirtyThreeBytes(n, merkle_value) ==
    LET value == storage[nibbles_to_bytes(n)] IN
    /\ (merkle_value.node.storage_value.kind = "Hashed")
            = (entry_version = "V1" /\ value.len >= 33)
    /\ merkle_value.node.storage_value.kind = "Hashed"
            => merkle_value.node.storage_value.blake2b = value
    /\ (entry_version = "V0" \/ value.len <= 32)
            => merkle_value.node.storage_value = [kind |-> "Unhashed", value |-> value]

\* C34: the storage value injected enters the encoding of the node as its
\* Blake2b-256 hash if and only if the version of the entry is V1 and the
\* value has 33 bytes or more; a V1 value of 32 bytes or less and a V0
\* value of any length enter it as they are.
C34_HashedFromThirtyThreeBytes ==
    [][calculation = "StorageValue" =>
            \A n \in NewlyCalculated :
                StructureOf(cache')[n].has_storage_value =>
                    HashedFromThirtyThreeBytes(
                        n, Unwrap(StructureOf(cache')[n].merkle_value))]_vars

\* A calculation finished over a V1 entry whose value has 32 bytes, which is
\* in the root node as it is.
C34_Witness ==
    /\ calculation = "Finished"
    /\ entry_version = "V1"
    /\ \E key \in DOMAIN storage : storage[key].len = 32
    /\ Unwrap(root_hash).node.storage_value.kind = "Unhashed"


\* The step is one of a calculation that was given a cache with a structure:
\* the call of root_merkle_value, or the answer to a request.
PrimedStep == given_cache' = "primed" /\ calculation' # "idle"

\* A calculation given a cache with a structure makes no AllKeys request,
\* and the node whose value it requests is without a Merkle value, as is
\* every node above it.
RequestsOnlyUncached ==
    given_cache = "primed" =>
        /\ RequestsOf("AllKeys") = {}
        /\ calculation # "AllKeys"
        /\ calculation = "StorageValue" =>
                AbsentUpToRoot(StructureOf(cache), Unwrap(current))

\* The Merkle values that the cache holds are left as they are.
CachedValuesKept ==
    /\ DOMAIN StructureOf(cache') = DOMAIN StructureOf(cache)
    /\ \A n \in DOMAIN StructureOf(cache) :
            IsSome(StructureOf(cache)[n].merkle_value)
                => StructureOf(cache')[n] = StructureOf(cache)[n]

\* No value is requested for a key whose node, or a node above it, had a
\* Merkle value before the step.
NoRequestUnderCached ==
    calculation' = "StorageValue" =>
        \A n \in DOMAIN StructureOf(cache) :
            (n = Unwrap(current') \/ n \in Ancestors(StructureOf(cache), Unwrap(current')))
                => ~IsSome(StructureOf(cache)[n].merkle_value)

\* Given a cache all of whose nodes have a Merkle value, root_merkle_value
\* returns Finished with the Merkle value of the root node of that cache.
FinishedAtOnce ==
    (/\ calculation \in {"idle", "Finished"}
     /\ IsSome(root_node(StructureOf(cache)))
     /\ \A n \in DOMAIN StructureOf(cache) : IsSome(StructureOf(cache)[n].merkle_value))
        => /\ calculation' = "Finished"
           /\ requests' = <<>>
           /\ cache' = cache
           /\ root_hash' = StructureOf(cache)[Unwrap(root_node(StructureOf(cache)))].merkle_value

\* C35: a calculation started with a cache that holds a structure never
\* requests AllKeys and keeps the Merkle values of the cache: it requests
\* no StorageValue for a node that has a Merkle value nor for a node below
\* such a node, and given a cache all of whose nodes have one it finishes
\* at once with the root of the cache, without a request.
C35_PrimedCacheReuse ==
    /\ []RequestsOnlyUncached
    /\ [][PrimedStep => (CachedValuesKept /\ NoRequestUnderCached /\ FinishedAtOnce)]_vars

\* A calculation given a cache asks for the value of a key while another
\* node of the cache, not above that key, keeps its Merkle value.
C35_Witness ==
    /\ given_cache = "primed"
    /\ calculation = "StorageValue"
    /\ \E n \in DOMAIN StructureOf(cache) :
            /\ IsSome(StructureOf(cache)[n].merkle_value)
            /\ StructureOf(cache)[n].has_storage_value
            /\ \A i \in DOMAIN requests : requests[i][2] # nibbles_to_bytes(n)


\* Every node of the cache has a Merkle value.
FullyValued(c) ==
    \A n \in DOMAIN StructureOf(c) : IsSome(StructureOf(c)[n].merkle_value)

\* Every node above a node without a Merkle value is without one.
AbsentBelowAbsent(c) ==
    \A n \in DOMAIN StructureOf(c) :
        ~IsSome(StructureOf(c)[n].merkle_value) => AbsentUpToRoot(StructureOf(c), n)

\* C36: the cache that Finished returns has a Merkle value for every node
\* of its structure, and in every cache that calculations and updates
\* leave, the nodes above a node without a Merkle value are all without
\* one, so that the traversal, which does not go below a node that has a
\* Merkle value, passes by no node that lacks one.
C36_FinishedCacheValued ==
    /\ calculation = "Finished" => FullyValued(cache)
    /\ calculation \in {"idle", "Finished", "StorageValue"} => AbsentBelowAbsent(cache)

\* A calculation given a cache that two updates had left with nodes lacking
\* a Merkle value below the root and others keeping theirs has finished.
C36_Witness ==
    /\ calculation = "Finished"
    /\ given_cache = "primed"
    /\ Len(requests) >= 2
    /\ Len(requests) < Cardinality(DOMAIN storage)
    /\ Cardinality(DOMAIN StructureOf(cache)) >= 4



(***************************************************************************)
(* Properties of the hashes and of the variants of the inserted blocks.    *)
(***************************************************************************)

\* The hash of the decoded header is the hash of the bytes it was decoded
\* from, for every header that can be submitted.
HashOfDecodedIsHashOfBytes ==
    \A scale_encoded_header \in HeaderInputs :
        Decodable(scale_encoded_header) =>
            hash(decode(scale_encoded_header))
                = hash_from_scale_encoded_header(scale_encoded_header)

\* The hash of an insert handle is the hash of the header of its context
\* and is not a key of blocks_by_hash.
HandleHashIsNew ==
    pc \in InsertHandles =>
        /\ insert_handle.hash
                = hash_from_scale_encoded_header(scale_encoding(context.header))
        /\ insert_handle.hash \notin DOMAIN blocks_by_hash

\* Two nodes of the tree never have the same hash, and the hash of a node
\* is that of the bytes of its header.
NoCollision ==
    \A i, j \in 1 .. Len(blocks) :
        /\ blocks[i].hash = hash_from_scale_encoded_header(scale_encoding(blocks[i].header))
        /\ blocks[i].hash = blocks[j].hash => i = j

VariantsOfFinalized ==
    \A i \in 1 .. Len(blocks) :
        /\ blocks[i].consensus.tag = finalized_consensus.tag
        /\ blocks[i].finality.tag = finality.tag

\* C38: in a tree built through verification and insertion, the consensus
\* of every node is of the variant (Aura or Babe) of finalized_consensus and
\* its finality of the variant of the finalized finality; ConsensusMismatch
\* is never returned, the unreachable arm of the derivation of the
\* consensus of a verified block is never taken, and a tree whose
\* finalized_consensus is Unknown never gets a block nor an insert handle.
C38_VariantsMatch ==
    /\ VariantsOfFinalized
    /\ last.out # "ConsensusMismatch"
    /\ ~(pc = "panic" /\ last.out = "unreachable")
    /\ pc \in InsertHandles =>
            /\ Unwrap(insert_handle.consensus).tag = finalized_consensus.tag
            /\ Unwrap(insert_handle.finality).tag = finality.tag
    /\ finalized_consensus.tag = "Unknown" =>
            (blocks = <<>> /\ pc \notin InsertHandles)

\* A Babe block was inserted on top of a Babe block of the tree after its
\* body was verified.
C38_Witness ==
    /\ Len(blocks) >= 2
    /\ finalized_consensus.tag = "Babe"
    /\ IsSome(blocks[Len(blocks)].parent)
    /\ last.op = "BodyInsert::insert"
    /\ last.out = "Ok"


(***************************************************************************)
(* The client of the wasm node: advance_execution and the queue of the     *)
(* JSON-RPC responses of a chain.                                          *)
(***************************************************************************)

\* The most polls in a row after which the main task wakes itself up.
MaxWork == 2

\* The most timers of delay zero waiting to fire.
MaxTimers == 3

\* The most responses the stream of a chain produces.
MaxResponses == 3

\* The lengths of the responses produced: empty or not.
ResponseLens == {0, 2}

\* init: the client is created with the periodically_yield it is given.
InitClient ==
    /\ NoVerification
    /\ entry_version = "V1"
    /\ NoCalculation
    /\ periodically_yield \in BOOLEAN
    /\ main_task = 0
    /\ timers = 0
    /\ execution = NoExecution
    /\ chain = None
    /\ stream = <<>>
    /\ waker = "None"
    /\ produced = <<>>
    /\ exposed = <<>>
    /\ non_empty = 0
    /\ awaited = FALSE
    /\ returned = NoCall

\* What the actions of the client leave alone.
other_vars == <<verification_vars, trie_vars>>
execution_vars == <<periodically_yield, main_task, timers, execution>>
chain_vars == <<chain, stream, waker, produced, exposed, non_empty, awaited, returned>>

\* set_periodically_yield
set_periodically_yield ==
    /\ \E value \in BOOLEAN : periodically_yield' = value
    /\ UNCHANGED <<main_task, timers, execution, chain_vars, other_vars>>

\* The main task gets more to execute than one poll does: each of its next
\* polls wakes it up again.
MainTaskWork ==
    /\ \E more \in 1 .. MaxWork :
        /\ main_task + more <= MaxWork
        /\ main_task' = main_task + more
    /\ UNCHANGED <<periodically_yield, timers, execution, chain_vars, other_vars>>

\* The loop of advance_execution, from the main task with `work` polls that
\* wake it up again: the polls made and the timers started, in order, and
\* what is left to the main task when the loop is left.
RECURSIVE ExecutionLoop(_, _, _)
ExecutionLoop(work, yield, steps) ==
    LET woken_up == work > 0
        left == IF woken_up THEN work - 1 ELSE 0
        polled == Append(steps, IF woken_up THEN "poll_woken_up" ELSE "poll")
    IN  IF ~woken_up
        THEN [main_task |-> left, steps |-> polled]
        ELSE IF ~yield
        THEN ExecutionLoop(left, yield, polled)
        ELSE ExecutionLoop(left, yield, Append(polled, "start_timer"))

\* The timers started by the steps of a call: one per start_timer_wrap.
start_timer_wrap(steps) ==
    Cardinality({i \in DOMAIN steps : steps[i] = "start_timer"})

\* A call of advance_execution, by the embedder or by a timer that fires.
AdvanceExecution(fired) ==
    LET out == ExecutionLoop(main_task, periodically_yield, <<>>)
        started == start_timer_wrap(out.steps)
    IN  /\ timers - fired + started <= MaxTimers
        /\ main_task' = out.main_task
        /\ timers' = timers - fired + started
        /\ execution' = [periodically_yield |-> periodically_yield,
                         steps |-> out.steps]
        /\ UNCHANGED <<periodically_yield, chain_vars, other_vars>>

\* advance_execution, called by the embedder.
advance_execution == AdvanceExecution(0)

\* A timer started by advance_execution fires and calls advance_execution.
timer_finished ==
    /\ timers > 0
    /\ AdvanceExecution(1)

\* init::Chain::Healthy as add_chain inserts it.
HealthyChain(json_rpc_running) ==
    [tag |-> "Healthy",
     json_rpc_response |-> None,
     json_rpc_response_info |-> [ptr |-> 0, len |-> 0],
     json_rpc_responses_rx |-> IF json_rpc_running THEN Some("rx") ELSE None]

\* init::Chain::Erroneous
ErroneousChain ==
    [tag |-> "Erroneous", json_rpc_response |-> None,
     json_rpc_response_info |-> [ptr |-> 0, len |-> 0],
     json_rpc_responses_rx |-> None]

\* What a call on the chain returned.
Call(op, out, info) == [op |-> op, out |-> out, ptr |-> info.ptr, len |-> info.len]

\* add_chain: the chain is Erroneous when memory is low or the client
\* refuses it; otherwise it is Healthy and, with JSON-RPC enabled, its
\* stream is polled once with a JsonRpcResponsesNonEmptyWaker.
add_chain ==
    /\ chain = None
    /\ \E json_rpc_running \in BOOLEAN, result \in {"Ok", "Err"} :
        /\ chain' = Some(IF result = "Ok" THEN HealthyChain(json_rpc_running)
                         ELSE ErroneousChain)
        /\ waker' = IF result = "Ok" /\ json_rpc_running THEN "NonEmpty" ELSE "None"
        /\ awaited' = (result = "Ok" /\ json_rpc_running)
    /\ stream' = <<>>
    /\ produced' = <<>>
    /\ exposed' = <<>>
    /\ non_empty' = 0
    /\ returned' = Call("add_chain", "Ok", [ptr |-> 0, len |-> 0])
    /\ UNCHANGED <<execution_vars, other_vars>>

\* remove_chain: the stream of a Healthy chain is polled with a waker that
\* does nothing, then the chain is removed from the client, which ends the
\* stream and wakes the waker the stream holds.
remove_chain ==
    /\ IsSome(chain)
    /\ LET c == Unwrap(chain)
           held == IF IsSome(c.json_rpc_responses_rx) /\ stream = <<>>
                   THEN "noop" ELSE waker
       IN  non_empty' = IF held = "NonEmpty" THEN non_empty + 1 ELSE non_empty
    /\ chain' = None
    /\ stream' = <<>>
    /\ waker' = "None"
    /\ awaited' = FALSE
    /\ returned' = Call("remove_chain", "Ok", [ptr |-> 0, len |-> 0])
    /\ UNCHANGED <<produced, exposed, execution_vars, other_vars>>

\* The JSON-RPC service of the chain produces a response, and the stream
\* wakes the waker it holds: JsonRpcResponsesNonEmptyWaker::wake calls
\* json_rpc_responses_non_empty.
StreamProduce ==
    /\ IsSome(chain)
    /\ IsSome(Unwrap(chain).json_rpc_responses_rx)
    /\ Len(produced) < MaxResponses
    /\ \E len \in ResponseLens :
        LET response == [id |-> Len(produced) + 1, len |-> len]
        IN  /\ stream' = Append(stream, response)
            /\ produced' = Append(produced, response)
    /\ non_empty' = IF waker = "NonEmpty" THEN non_empty + 1 ELSE non_empty
    /\ waker' = "None"
    /\ awaited' = FALSE
    /\ UNCHANGED <<chain, exposed, returned, execution_vars, other_vars>>

\* The loop of json_rpc_responses_peek taking the first response of the
\* stream, empty or not.
PeekLoopExposingEmpty(queue) ==
    IF queue = <<>>
    THEN [response |-> None, stream |-> <<>>, pending |-> TRUE]
    ELSE [response |-> Some(Head(queue)), stream |-> Tail(queue),
          pending |-> FALSE]

\* The loop of json_rpc_responses_peek over the stream: the empty responses
\* are skipped, the first one that is not empty is taken, and the loop is
\* left when the stream is pending.
RECURSIVE PeekLoop(_)
PeekLoop(queue) ==
    IF queue = <<>>
    THEN [response |-> None, stream |-> <<>>, pending |-> TRUE]
    ELSE IF Head(queue).len = 0
    THEN PeekLoop(Tail(queue))
    ELSE [response |-> Some(Head(queue)), stream |-> Tail(queue),
          pending |-> FALSE]

\* The JsonRpcResponseInfo of the response held: its address and its length.
JsonRpcResponseInfo(json_rpc_response) ==
    IF IsSome(json_rpc_response)
    THEN [ptr |-> Unwrap(json_rpc_response).id,
          len |-> Unwrap(json_rpc_response).len]
    ELSE [ptr |-> 0, len |-> 0]

\* json_rpc_responses_peek
json_rpc_responses_peek ==
    /\ IsSome(chain)
    /\ LET c == Unwrap(chain)
           polled == /\ c.tag = "Healthy"
                     /\ c.json_rpc_response = None
                     /\ IsSome(c.json_rpc_responses_rx)
           out == IF polled THEN PeekLoop(stream)
                  ELSE [response |-> c.json_rpc_response, stream |-> stream,
                        pending |-> FALSE]
           info == JsonRpcResponseInfo(out.response)
       IN  IF c.tag = "Erroneous"
           THEN /\ returned' = Call("json_rpc_responses_peek", "panic",
                                    [ptr |-> 0, len |-> 0])
                /\ UNCHANGED <<chain, stream, waker, exposed, awaited>>
           ELSE /\ chain' = Some([c EXCEPT !.json_rpc_response = out.response,
                                           !.json_rpc_response_info = info])
                /\ stream' = out.stream
                /\ waker' = IF out.pending THEN "NonEmpty" ELSE waker
                /\ exposed' = IF polled /\ IsSome(out.response)
                              THEN Append(exposed, Unwrap(out.response))
                              ELSE exposed
                /\ awaited' = IF info.len = 0 THEN TRUE ELSE awaited
                /\ returned' = Call("json_rpc_responses_peek", "Ok", info)
    /\ UNCHANGED <<produced, non_empty, execution_vars, other_vars>>

\* json_rpc_responses_pop
json_rpc_responses_pop ==
    /\ IsSome(chain)
    /\ LET c == Unwrap(chain)
       IN  IF c.tag = "Erroneous"
           THEN /\ returned' = Call("json_rpc_responses_pop", "panic",
                                    [ptr |-> 0, len |-> 0])
                /\ UNCHANGED chain
           ELSE /\ chain' = Some([c EXCEPT !.json_rpc_response = None])
                /\ returned' = Call("json_rpc_responses_pop", "Ok",
                                    [ptr |-> 0, len |-> 0])
    /\ UNCHANGED <<stream, waker, produced, exposed, non_empty, awaited,
                   execution_vars, other_vars>>

NextClient ==
    \/ set_periodically_yield
    \/ MainTaskWork
    \/ advance_execution
    \/ timer_finished
    \/ add_chain
    \/ remove_chain
    \/ StreamProduce
    \/ json_rpc_responses_peek
    \/ json_rpc_responses_pop

SpecClient == InitClient /\ [][NextClient]_vars


(***************************************************************************)
(* Properties of the client of the wasm node.                              *)
(***************************************************************************)

\* The last call of advance_execution found the main task waking itself up
\* during its first poll.
WokenUpDuringPoll ==
    /\ execution.steps # <<>>
    /\ execution.steps[1] = "poll_woken_up"

\* The call polled until a poll without a wake-up and started no timer.
PolledUntilQuiet ==
    /\ start_timer_wrap(execution.steps) = 0
    /\ execution.steps[Len(execution.steps)] = "poll"
    /\ \A i \in 1 .. Len(execution.steps) - 1 :
            execution.steps[i] = "poll_woken_up"

\* C39: a call of advance_execution during which the main task wakes
\* itself up, with periodically_yield true, starts one timer of delay zero
\* and returns without polling the main task again; with periodically_yield
\* false it polls until a poll without a wake-up, and starts no timer.
C39_YieldsAfterSelfWake ==
    WokenUpDuringPoll =>
        IF execution.periodically_yield
        THEN execution.steps = <<"poll_woken_up", "start_timer">>
        ELSE PolledUntilQuiet

\* The chain at the chain id is Healthy.
HealthyChainInserted == IsSome(chain) /\ Unwrap(chain).tag = "Healthy"

\* The responses of a sequence that are not empty, in order.
NonEmptyResponses(responses) == SelectSeq(responses, LAMBDA r : r.len # 0)

\* The responses taken by json_rpc_responses_peek, followed by those still
\* in the stream that are not empty, are the responses produced that are not
\* empty, in the order of their production.
ExposedInOrderOnce ==
    exposed \o NonEmptyResponses(stream) = NonEmptyResponses(produced)

\* The response the chain holds is the last one taken, and it is the one the
\* last json_rpc_responses_peek returned if no call was made since.
HeldIsLastExposed ==
    LET c == Unwrap(chain)
    IN  /\ IsSome(c.json_rpc_response) =>
                /\ exposed # <<>>
                /\ Unwrap(c.json_rpc_response) = exposed[Len(exposed)]
        /\ (returned.op = "json_rpc_responses_peek" /\ returned.len # 0) =>
                /\ IsSome(c.json_rpc_response)
                /\ returned.ptr = Unwrap(c.json_rpc_response).id
                /\ returned.len = Unwrap(c.json_rpc_response).len

\* After json_rpc_responses_peek returned a length of 0, and as long as no
\* response is produced, the queue is empty.
ZeroLenIsEmptyQueue ==
    (returned.op = "json_rpc_responses_peek" /\ returned.len = 0 /\ awaited) =>
        /\ stream = <<>>
        /\ Unwrap(chain).json_rpc_response = None

\* json_rpc_responses_peek called again with no json_rpc_responses_pop in
\* between returns the same response.
SameUntilPop ==
    (/\ returned.op = "json_rpc_responses_peek"
     /\ returned.len # 0
     /\ returned'.op = "json_rpc_responses_peek") => returned' = returned

\* The response produced first after add_chain with JSON-RPC enabled, or
\* after a json_rpc_responses_peek that returned a length of 0, makes
\* json_rpc_responses_non_empty be called.
NonEmptyCalled ==
    (HealthyChainInserted /\ awaited /\ Len(produced') = Len(produced) + 1) =>
        non_empty' = non_empty + 1

\* C40: for a Healthy chain, json_rpc_responses_peek returns the same
\* response until json_rpc_responses_pop is called, the responses are
\* exposed in the order of their production and none twice, a length of 0
\* is returned only when the queue is empty, empty responses are never
\* exposed, and the first response produced after add_chain with JSON-RPC
\* enabled or after a peek that returned a length of 0 makes
\* json_rpc_responses_non_empty be called.
C40_PeekPopQueue ==
    /\ [](HealthyChainInserted =>
            /\ ExposedInOrderOnce
            /\ HeldIsLastExposed
            /\ ZeroLenIsEmptyQueue
            /\ returned.out # "panic")
    /\ [][SameUntilPop /\ NonEmptyCalled]_vars

\* A response was returned, popped, the queue was then seen empty, an empty
\* response and another one were produced, and json_rpc_responses_peek
\* returned the latter: json_rpc_responses_non_empty was called after
\* add_chain and after the peek of the empty queue.
C40_Witness ==
    /\ HealthyChainInserted
    /\ Len(exposed) = 2
    /\ Len(produced) = 3
    /\ produced[2].len = 0
    /\ non_empty = 2
    /\ returned.op = "json_rpc_responses_peek"
    /\ returned.ptr = 3

====
